---- MODULE Spec2Model ----
(***************************************************************************)
(* A model of the JNI handle table (runtime/jniHandles.hpp) and of the ZGC *)
(* root iterators with their claim-once guards (gc/z/zRootsIterator.cpp).  *)
(*                                                                         *)
(* Conventions                                                             *)
(*  - NULL (the null oop and the null jobject) is 0; oops are 1..NumRefs.  *)
(*  - HotSpot's assert(...) is modelled in its checking form: a failed     *)
(*    assertion is an outcome of the call ("viol" names the assertion).    *)
(*  - Addresses are integers; every slot address is a multiple of          *)
(*    weak_tag_alignment, the alignment the tagging scheme relies on.      *)
(***************************************************************************)
EXTENDS Integers, Sequences, FiniteSets, TLC

(* ------------------------------ bounds --------------------------------- *)
NumWorkers == 2
MaxCalls == 2
NumSegments == 2
NumRefs == 2
MaxBlocks == 2
NumStorageSlots == 2
MaxOps == 3
MaxPasses == 2
MaxMutations == 2
NumThreads == 2
NumSymbols == 2

(* ------------------------- program constants --------------------------- *)
block_size_in_oops == 32
weak_tag_size == 1
weak_tag_value == 1
weak_tag_alignment == 2 ^ weak_tag_size
weak_tag_mask == weak_tag_alignment - 1

Workers == 1..NumWorkers
Segments == 1..NumSegments
\* Two slots per segment of the partitioned storage.
SegSlots(g) == {2 * g - 1, 2 * g}
ParSlots == UNION {SegSlots(g) : g \in Segments}

VARIABLES
  \* ---- one claim-once guard instance and the workers calling it ----
  guardKind,    \* "serial" (ZSerialOopsDo) or "parallel" (ZParallelOopsDo)
  claimed,      \* ZSerialOopsDo::_claimed
  completed,    \* ZParallelOopsDo::_completed
  gpc,          \* each worker's position inside its guard call
  gcalls,       \* calls of the guard entry point started, per worker
  entryFlag,    \* the value of the flag the worker's latest call read on entry
  ranLast,      \* whether the worker's latest call invoked F
  serialRuns,   \* invocations of F through the serial guard
  serialDone,   \* invocations of F through the serial guard that returned
  parRuns,      \* invocations of F through the parallel guard, per worker
  parDone,      \* invocations of F through the parallel guard that returned
  parSkips,     \* calls of the parallel guard that returned without F, per worker
  parNext,      \* partition state: next unclaimed segment
  mySeg,        \* the segment a worker is visiting
  segOwner,     \* which worker claimed each segment (0: unclaimed)
  parLive,      \* slots of the partitioned storage that hold a live entry
  visits,       \* times each slot was presented to the closure
  \* ---- the handle table ----
  chain,        \* one thread's JNIHandleBlock chain (see ChainInit)
  gmem,         \* JNIHandles::_global_handles: slot -> oop, or Unalloc
  wmem,         \* JNIHandles::_weak_global_handles: slot -> oop, or Unalloc
  issued,       \* <<handle, maker, slot address>> of every non-null handle handed out
  liveLocal,    \* <<handle, oop>>: made by make_local and not destroyed since
  deadLocal,    \* local handles destroyed whose slot was not handed out again
  clearedWeak,  \* weak handles whose referent the collector has cleared
  madeFor,      \* the oop each weak slot's handle was made for (0: none)
  last,         \* the latest call on the handle table and its outcome
  ops,          \* calls made on the handle table
  \* ---- the root iterators ----
  zWeakRoots,   \* the flag ZWeakRoots
  zConcJNI,     \* the flag ZConcurrentJNIWeakGlobalHandles
  iter,         \* the iterator object that exists: "none", "strong", "weak"
  rflag,        \* the _claimed / _completed flag of each group's guard
  rpc,          \* each worker's position in the aggregate entry point
  rcalls,       \* calls of the aggregate entry point started on this iterator
  rreturned,    \* ... and returned
  ran,          \* the groups whose traversal function has run on this iterator
  rvisits,      \* times each storage slot was presented to the closure
  prevVisits,   \* rvisits of the iterator before this one
  dead,         \* the oops the liveness predicate (is_alive) reports dead
  usedAlways,   \* some call on this iterator came through ZWeakRootsIterator::oops_do
  sawVisitJvmti, \* with ZWeakRoots on, some call passed visit_jvmti_weak_export = true
  passes,       \* iterators constructed
  safepoint,    \* SafepointSynchronize::is_at_safepoint()
  parity,       \* Threads::_thread_claim_parity
  tclaim,       \* each Java thread's claimed parity
  tscans,       \* times each thread's stack was scanned on this iterator
  parState,     \* the next slice the weak storage's partition state hands out
  rpos,         \* each worker's position inside a partitioned traversal
  assertFailed, \* the latest teardown assertion on the threads' claims failed
  scanStart,    \* the weak slots allocated when the partition state was made
  destroyedIn,  \* the weak slots destroyed while the partition state is live
  cycle,        \* per iterator kind, what its pass of the collection cycle ran
  symtab,       \* the entries linked in the symbol table
  symUnref      \* the symbols no reference is left to

gvars == <<guardKind, claimed, completed, gpc, gcalls, entryFlag, ranLast,
           serialRuns, serialDone, parRuns, parDone, parSkips, parNext,
           mySeg, segOwner, parLive, visits>>

hvars == <<chain, gmem, wmem, issued, liveLocal, deadLocal, clearedWeak, madeFor, last, ops>>

\* The thread claims, the safepoint and the concurrent scan's partition state.
pvars == <<safepoint, parity, tclaim, tscans, parState, rpos, assertFailed,
           scanStart, destroyedIn, cycle>>

\* The symbol table.
svars == <<symtab, symUnref>>

rvars == <<zWeakRoots, zConcJNI, iter, rflag, rpc, rcalls, rreturned, ran, rvisits,
           prevVisits, dead, usedAlways, sawVisitJvmti, passes, pvars, svars>>

\* What the guard's actions and the handle table's actions leave alone.
nonGuard == <<hvars, rvars>>
nonHandle == <<gvars, rvars>>

vars == <<gvars, hvars, rvars>>

(* ------------------------- claim-once guards --------------------------- *)

SerialSeesUnclaimed_Inverted(c) == c = TRUE
\* ZSerialOopsDo::oops_do, the first operand of &&: the plain read of _claimed.
SerialSeesUnclaimed(c) == c = FALSE

SerialClaimSucceeds_NoCompare(old) == TRUE
\* Atomic::cmpxchg(true, &_claimed, false) == false: the caller wins iff the
\* value it replaced was false.
SerialClaimSucceeds(old) == old = FALSE

ParShouldRun_Inverted(c) == c
ParShouldRun_Always(c) == TRUE
\* ZParallelOopsDo::oops_do: if (!_completed) { F; ... }
ParShouldRun(c) == ~c

(* --------------------------- handle encoding --------------------------- *)
NULL == 0
Unalloc == 0 - 1
Refs == 1..NumRefs
NoViol == "none"

RECURSIVE BitAnd(_, _)
\* The bitwise & of two naturals.
BitAnd(a, b) ==
  IF a = 0 \/ b = 0 THEN 0
  ELSE (a % 2) * (b % 2) + 2 * BitAnd(a \div 2, b \div 2)

\* Slot numbering: local slot (b, i) of the chain, then the global storage,
\* then the weak-global storage; slot k lives at address k * weak_tag_alignment.
LocalSpan == MaxBlocks * block_size_in_oops
LocalSlot(b, i) == (b - 1) * block_size_in_oops + i + 1
GlobalSlot(g) == LocalSpan + g
WeakSlot(w) == LocalSpan + NumStorageSlots + w
AddrOf(k) == k * weak_tag_alignment
StorageSlots == 1..NumStorageSlots

is_jweak_WrongMask(handle) == BitAnd(handle, weak_tag_alignment) # 0
\* JNIHandles::is_jweak
is_jweak(handle) == BitAnd(handle, weak_tag_mask) # 0

\* JNIHandles::jweak_ref_addr: the address the tagged handle designates
\* (assert(is_jweak(handle)) is the caller's obligation, checked in resolve_jweak).
jweak_ref_addr(handle) == handle - weak_tag_value

\* The tagging make_weak_global applies to the slot address it was given.
make_jweak(addr) == addr + weak_tag_value

\* The oop stored at an address: a chain slot, a global slot or a weak slot.
\* Total, so that a misdecoded address reads as some word instead of failing:
\* an address that designates no slot reads as NULL.
Load(c, g, w, addr) ==
  LET k == addr \div weak_tag_alignment IN
  IF addr % weak_tag_alignment # 0 THEN NULL
  ELSE IF k \in 1..LocalSpan THEN c.mem[k]
  ELSE IF k - LocalSpan \in StorageSlots THEN g[k - LocalSpan]
  ELSE IF k - LocalSpan - NumStorageSlots \in StorageSlots
    THEN w[k - LocalSpan - NumStorageSlots]
  ELSE NULL

\* Whether the address designates memory that is currently allocated: a slot
\* of a block of the chain, or a slot the storage has handed out.
Mapped(c, g, w, addr) ==
  LET k == addr \div weak_tag_alignment IN
  /\ addr % weak_tag_alignment = 0
  /\ \/ k \in 1..(c.nblocks * block_size_in_oops)
     \/ (k - LocalSpan \in StorageSlots /\ g[k - LocalSpan] # Unalloc)
     \/ (k - LocalSpan - NumStorageSlots \in StorageSlots
           /\ w[k - LocalSpan - NumStorageSlots] # Unalloc)

Outcome(v, r) == [viol |-> v, val |-> r]

(* ------------------------------ resolve -------------------------------- *)

\* JNIHandles::resolve_jweak: the oop in the weak slot (NULL once the
\* collector has cleared the referent).
resolve_jweak(c, g, w, handle) ==
  IF ~is_jweak(handle) THEN Outcome("precondition", NULL)
  ELSE Outcome(NoViol, Load(c, g, w, jweak_ref_addr(handle)))

\* JNIHandles::jobject_ref, read: assert(!is_jweak(handle)); *handle.
jobject_ref(c, g, w, handle) ==
  IF is_jweak(handle) THEN Outcome("precondition", NULL)
  ELSE Outcome(NoViol, Load(c, g, w, handle))

resolve_impl_NoCheck(c, g, w, handle, external_guard, in_native) ==
  IF handle = NULL THEN Outcome("precondition", NULL)
  ELSE IF in_native THEN Outcome("must not be in native", NULL)
  ELSE IF is_jweak(handle) THEN resolve_jweak(c, g, w, handle)
  ELSE jobject_ref(c, g, w, handle)
\* JNIHandles::resolve_impl<external_guard>; in_native is the value of
\* current_thread_in_native() for the calling thread.
resolve_impl(c, g, w, handle, external_guard, in_native) ==
  IF handle = NULL THEN Outcome("precondition", NULL)
  ELSE IF in_native THEN Outcome("must not be in native", NULL)
  ELSE IF is_jweak(handle) THEN resolve_jweak(c, g, w, handle)
  ELSE LET result == jobject_ref(c, g, w, handle) IN
       IF result.viol # NoViol THEN result
       ELSE IF ~(external_guard \/ result.val # NULL)
         THEN Outcome("Invalid JNI handle", NULL)
       ELSE result

resolve_NullTestInverted(c, g, w, handle, in_native) ==
  IF handle = NULL THEN resolve_impl(c, g, w, handle, FALSE, in_native)
  ELSE Outcome(NoViol, NULL)
\* JNIHandles::resolve
resolve(c, g, w, handle, in_native) ==
  IF handle # NULL THEN resolve_impl(c, g, w, handle, FALSE, in_native)
  ELSE Outcome(NoViol, NULL)

resolve_external_guard_AsResolve(c, g, w, handle, in_native) ==
  IF handle # NULL THEN resolve_impl(c, g, w, handle, FALSE, in_native)
  ELSE Outcome(NoViol, NULL)
\* JNIHandles::resolve_external_guard
resolve_external_guard(c, g, w, handle, in_native) ==
  IF handle # NULL THEN resolve_impl(c, g, w, handle, TRUE, in_native)
  ELSE Outcome(NoViol, NULL)

resolve_non_null_NoResultCheck(c, g, w, handle, in_native) ==
  IF handle = NULL THEN Outcome("JNI handle should not be null", NULL)
  ELSE resolve_impl(c, g, w, handle, FALSE, in_native)
\* JNIHandles::resolve_non_null
resolve_non_null(c, g, w, handle, in_native) ==
  IF handle = NULL THEN Outcome("JNI handle should not be null", NULL)
  ELSE LET result == resolve_impl(c, g, w, handle, FALSE, in_native) IN
       IF result.viol # NoViol THEN result
       ELSE IF result.val = NULL THEN Outcome("NULL read from jni handle", NULL)
       ELSE result

\* JNIHandles::is_global_weak_cleared: the weak slot's content, read without
\* resolving.
is_global_weak_cleared(c, g, w, handle) ==
  is_jweak(handle) /\ Load(c, g, w, jweak_ref_addr(handle)) = NULL

(* --------------------------- local handles ----------------------------- *)

destroy_local_Checked(c, handle) ==
  IF handle = NULL THEN [viol |-> NoViol, chain |-> c]
  ELSE IF is_jweak(handle) THEN [viol |-> "Invalid JNI local handle", chain |-> c]
  ELSE IF c.mem[handle \div weak_tag_alignment] = NULL
    THEN [viol |-> "Invalid JNI handle", chain |-> c]
  ELSE [viol |-> NoViol,
        chain |-> [c EXCEPT !.mem[handle \div weak_tag_alignment] = NULL]]
\* JNIHandles::destroy_local on a handle into the chain: the chain afterwards
\* and the assertion that failed, if one did.
destroy_local(c, handle) ==
  IF handle = NULL THEN [viol |-> NoViol, chain |-> c]
  ELSE IF is_jweak(handle) THEN [viol |-> "Invalid JNI local handle", chain |-> c]
  ELSE [viol |-> NoViol,
        chain |-> [c EXCEPT !.mem[handle \div weak_tag_alignment] = NULL]]

RECURSIVE SetToSeq(_)
\* A set of numbers as an ascending sequence.
SetToSeq(S) ==
  IF S = {} THEN <<>>
  ELSE LET m == CHOOSE x \in S : \A y \in S : x <= y
       IN <<m>> \o SetToSeq(S \ {m})

rebuild_free_list_AllBelowTop(c) ==
  LET free == {AddrOf(LocalSlot(bi[1], bi[2])) :
                 bi \in {x \in (1..c.nblocks) \X (0..(block_size_in_oops - 1)) :
                           x[2] < c.top[x[1]]}}
  IN [c EXCEPT !.free_list = SetToSeq(free),
               !.allocate_before_rebuild = IF free = {} THEN 1 ELSE 0]
\* JNIHandleBlock::rebuild_free_list: the slots below top of every block of
\* the chain that hold NULL become the free list; when none is found the next
\* exhaustion appends a block instead of rebuilding again.
rebuild_free_list(c) ==
  LET free == {AddrOf(LocalSlot(bi[1], bi[2])) :
                 bi \in {x \in (1..c.nblocks) \X (0..(block_size_in_oops - 1)) :
                           /\ x[2] < c.top[x[1]]
                           /\ c.mem[LocalSlot(x[1], x[2])] = NULL}}
  IN [c EXCEPT !.free_list = SetToSeq(free),
               !.allocate_before_rebuild = IF free = {} THEN 1 ELSE 0]

RECURSIVE allocate_handle(_, _)
allocate_handle_OffByOne(c, obj) ==
  IF c.free_list # <<>>
    THEN LET a == Head(c.free_list) IN
         [handle |-> a,
          chain |-> [c EXCEPT !.free_list = Tail(@),
                              !.mem[a \div weak_tag_alignment] = obj]]
  ELSE IF c.top[c.last] <= block_size_in_oops
    THEN LET k == LocalSlot(c.last, c.top[c.last]) IN
         [handle |-> AddrOf(k),
          chain |-> [c EXCEPT !.top[c.last] = @ + 1, !.mem[k] = obj]]
  ELSE IF c.last < c.nblocks
    THEN allocate_handle([c EXCEPT !.last = @ + 1], obj)
  ELSE IF c.allocate_before_rebuild = 0
    THEN allocate_handle(rebuild_free_list(c), obj)
  ELSE allocate_handle([c EXCEPT !.nblocks = @ + 1, !.last = c.nblocks + 1,
                                 !.allocate_before_rebuild = @ - 1], obj)
\* JNIHandleBlock::allocate_handle for a non-null oop: pop the free list, else
\* bump top of the block in use, else move to the next block of the chain,
\* rebuilding the free list or appending a block from the pool
\* (JNIHandleBlock::allocate_block) when the chain is exhausted.
allocate_handle(c, obj) ==
  IF c.free_list # <<>>
    THEN LET a == Head(c.free_list) IN
         [handle |-> a,
          chain |-> [c EXCEPT !.free_list = Tail(@),
                              !.mem[a \div weak_tag_alignment] = obj]]
  ELSE IF c.top[c.last] < block_size_in_oops
    THEN LET k == LocalSlot(c.last, c.top[c.last]) IN
         [handle |-> AddrOf(k),
          chain |-> [c EXCEPT !.top[c.last] = @ + 1, !.mem[k] = obj]]
  ELSE IF c.last < c.nblocks
    THEN allocate_handle([c EXCEPT !.last = @ + 1], obj)
  ELSE IF c.allocate_before_rebuild = 0
    THEN allocate_handle(rebuild_free_list(c), obj)
  ELSE allocate_handle([c EXCEPT !.nblocks = @ + 1, !.last = c.nblocks + 1,
                                 !.allocate_before_rebuild = @ - 1], obj)

\* JNIHandles::make_local: a null oop gives the null handle and takes no slot.
make_local(c, obj) ==
  IF obj = NULL THEN [handle |-> NULL, chain |-> c]
  ELSE allocate_handle(c, obj)

\* Whether an allocation stays inside the MaxBlocks blocks the model holds.
HasRoom(c) ==
  \/ c.free_list # <<>>
  \/ \E b \in c.last..c.nblocks : c.top[b] < block_size_in_oops
  \/ c.nblocks < MaxBlocks
  \/ /\ c.allocate_before_rebuild = 0
     /\ \E b \in 1..c.nblocks : \E i \in 0..(c.top[b] - 1) : c.mem[LocalSlot(b, i)] = NULL

\* A chain as a thread holds it: `filled` handles were allocated into the
\* first block, each for oop 1, and none destroyed.
ChainInit(filled) ==
  [top |-> [b \in 1..MaxBlocks |-> IF b = 1 THEN filled ELSE 0],
   nblocks |-> 1,
   last |-> 1,
   free_list |-> <<>>,
   allocate_before_rebuild |-> 0,
   mem |-> [k \in 1..LocalSpan |-> IF k <= filled THEN 1 ELSE NULL]]

\* A chain of k blocks as a thread holds it: `filled` handles were allocated
\* by bumping top, block after block, each for oop 1, and none destroyed.  The
\* block in use is the one the latest allocation went to.
ChainOfBlocks(k, filled) ==
  [top |-> [b \in 1..MaxBlocks |->
              IF filled >= b * block_size_in_oops THEN block_size_in_oops
              ELSE IF filled > (b - 1) * block_size_in_oops
                THEN filled - (b - 1) * block_size_in_oops
              ELSE 0],
   nblocks |-> k,
   last |-> IF filled = 0 THEN 1
            ELSE ((filled - 1) \div block_size_in_oops) + 1,
   free_list |-> <<>>,
   allocate_before_rebuild |-> 0,
   mem |-> [j \in 1..LocalSpan |-> IF j <= filled THEN 1 ELSE NULL]]

RECURSIVE SumTop(_, _)
\* The handles allocated by bumping top in blocks 1..b of chain c.
SumTop(c, b) == IF b = 0 THEN 0 ELSE c.top[b] + SumTop(c, b - 1)

(* ----------------------- handle-table operations ------------------------ *)

Call(op, h, obj, native, viol, stale) ==
  [op |-> op, h |-> h, obj |-> obj, native |-> native, viol |-> viol, stale |-> stale]

IssuedBy(makers) == {x[1] : x \in {y \in issued : y[2] \in makers}}

HandleInit(filled) ==
  /\ chain = ChainInit(filled)
  /\ gmem = [g \in StorageSlots |-> Unalloc]
  /\ wmem = [w \in StorageSlots |-> Unalloc]
  /\ issued = IF filled = 0 THEN {} ELSE {<<AddrOf(1), "local", AddrOf(1)>>}
  /\ liveLocal = IF filled = 0 THEN {} ELSE {<<AddrOf(1), 1>>}
  /\ deadLocal = {}
  /\ clearedWeak = {}
  /\ madeFor = [w \in StorageSlots |-> NULL]
  /\ last = Call("none", NULL, NULL, FALSE, NoViol, FALSE)
  /\ ops = 0

\* JNIHandles::make_local(obj)
MakeLocal(obj) ==
  /\ ops < MaxOps
  /\ obj = NULL \/ HasRoom(chain)
  /\ LET r == make_local(chain, obj) IN
     /\ chain' = r.chain
     /\ issued' = IF r.handle = NULL THEN issued
                  ELSE issued \cup {<<r.handle, "local", r.handle>>}
     /\ liveLocal' = IF r.handle = NULL THEN liveLocal
                     ELSE {x \in liveLocal : x[1] # r.handle} \cup {<<r.handle, obj>>}
     /\ deadLocal' = deadLocal \ {r.handle}
     /\ last' = Call("make_local", r.handle, obj, FALSE, NoViol, FALSE)
  /\ ops' = ops + 1
  /\ UNCHANGED <<nonHandle, madeFor, gmem, wmem, clearedWeak>>

\* JNIHandles::destroy_local(handle), called with the null handle, with a
\* local handle (live or already destroyed) or, wrongly, with a weak handle.
DestroyLocal(h) ==
  /\ ops < MaxOps
  /\ LET r == destroy_local(chain, h) IN
     /\ chain' = r.chain
     /\ liveLocal' = IF r.viol = NoViol THEN {x \in liveLocal : x[1] # h} ELSE liveLocal
     /\ deadLocal' = IF r.viol = NoViol /\ h # NULL THEN deadLocal \cup {h} ELSE deadLocal
     /\ last' = Call("destroy_local", h, NULL, FALSE, r.viol, h \in deadLocal)
  /\ ops' = ops + 1
  /\ UNCHANGED <<nonHandle, madeFor, gmem, wmem, issued, clearedWeak>>

\* JNIHandles::make_global(obj): a slot of the global storage, untagged.
MakeGlobal(obj) ==
  /\ ops < MaxOps
  /\ \/ /\ obj = NULL
        /\ last' = Call("make_global", NULL, obj, FALSE, NoViol, FALSE)
        /\ UNCHANGED <<gmem, issued>>
     \/ /\ obj # NULL
        /\ \E g \in StorageSlots :
             /\ gmem[g] = Unalloc
             /\ gmem' = [gmem EXCEPT ![g] = obj]
             /\ issued' = issued \cup {<<AddrOf(GlobalSlot(g)), "global", AddrOf(GlobalSlot(g))>>}
             /\ last' = Call("make_global", AddrOf(GlobalSlot(g)), obj, FALSE, NoViol, FALSE)
  /\ ops' = ops + 1
  /\ UNCHANGED <<nonHandle, madeFor, chain, wmem, liveLocal, deadLocal, clearedWeak>>

\* JNIHandles::destroy_global(handle) of a live global handle.
DestroyGlobal(g) ==
  /\ ops < MaxOps
  /\ gmem[g] # Unalloc
  /\ gmem' = [gmem EXCEPT ![g] = Unalloc]
  /\ last' = Call("destroy_global", AddrOf(GlobalSlot(g)), NULL, FALSE, NoViol, FALSE)
  /\ ops' = ops + 1
  /\ UNCHANGED <<nonHandle, madeFor, chain, wmem, issued, liveLocal, deadLocal, clearedWeak>>

\* JNIHandles::make_weak_global(obj): a slot of the weak storage, tagged.
MakeWeakGlobal(obj) ==
  /\ ops < MaxOps
  /\ \/ /\ obj = NULL
        /\ last' = Call("make_weak_global", NULL, obj, FALSE, NoViol, FALSE)
        /\ UNCHANGED <<wmem, issued, clearedWeak, madeFor>>
     \/ /\ obj # NULL
        /\ \E w \in StorageSlots :
             LET h == make_jweak(AddrOf(WeakSlot(w))) IN
             /\ wmem[w] = Unalloc
             /\ wmem' = [wmem EXCEPT ![w] = obj]
             /\ issued' = issued \cup {<<h, "weak", AddrOf(WeakSlot(w))>>}
             /\ clearedWeak' = clearedWeak \ {h}
             /\ madeFor' = [madeFor EXCEPT ![w] = obj]
             /\ last' = Call("make_weak_global", h, obj, FALSE, NoViol, FALSE)
  /\ ops' = ops + 1
  /\ UNCHANGED <<nonHandle, chain, gmem, liveLocal, deadLocal>>

\* JNIHandles::destroy_weak_global(handle) of a live weak handle: what it
\* does to the handle table.
destroy_weak_global(w) ==
  /\ ops < MaxOps
  /\ wmem[w] # Unalloc
  /\ wmem' = [wmem EXCEPT ![w] = Unalloc]
  /\ clearedWeak' = clearedWeak \ {make_jweak(AddrOf(WeakSlot(w)))}
  /\ last' = Call("destroy_weak_global", make_jweak(AddrOf(WeakSlot(w))), NULL, FALSE, NoViol, FALSE)
  /\ ops' = ops + 1
  /\ UNCHANGED <<madeFor, chain, gmem, issued, liveLocal, deadLocal>>
DestroyWeakGlobal(w) == destroy_weak_global(w) /\ UNCHANGED nonHandle

\* What JNIHandles::weak_oops_do(is_alive, f) does to a weak slot: a NULL slot
\* is left alone, a live referent is presented to f, a dead one is cleared.
\* The slot's content afterwards.
weak_oops_do_slot(val, alive) == IF val # NULL /\ ~alive THEN NULL ELSE val

\* The collector finds the referent of a weak handle dead and clears the slot.
WeakClear(w) ==
  /\ ops < MaxOps
  /\ wmem[w] # Unalloc
  /\ wmem[w] # NULL
  /\ wmem' = [wmem EXCEPT ![w] = weak_oops_do_slot(@, FALSE)]
  /\ clearedWeak' = clearedWeak \cup {make_jweak(AddrOf(WeakSlot(w)))}
  /\ last' = Call("weak_clear", make_jweak(AddrOf(WeakSlot(w))), NULL, FALSE, NoViol, FALSE)
  /\ ops' = ops + 1
  /\ UNCHANGED <<nonHandle, madeFor, chain, gmem, issued, liveLocal, deadLocal>>

\* The handles a caller can pass to a resolve entry point: the null handle and
\* every handle handed out whose slot is still allocated memory.
Resolvable ==
  {NULL} \cup {h \in IssuedBy({"local", "global", "weak"}) :
                 Mapped(chain, gmem, wmem, IF is_jweak(h) THEN jweak_ref_addr(h) ELSE h)}

\* One of the three resolve entry points is called, by a thread that is in
\* native state or not.
Resolve(kind, h, native) ==
  /\ ops < MaxOps
  /\ h \in Resolvable
  /\ LET r == CASE kind = "resolve" -> resolve(chain, gmem, wmem, h, native)
                [] kind = "resolve_external_guard" ->
                     resolve_external_guard(chain, gmem, wmem, h, native)
                [] OTHER -> resolve_non_null(chain, gmem, wmem, h, native)
     IN last' = Call(kind, h, r.val, native, r.viol, h \in deadLocal)
  /\ ops' = ops + 1
  /\ UNCHANGED <<nonHandle, madeFor, chain, gmem, wmem, issued, liveLocal, deadLocal, clearedWeak>>

ResolveKinds == {"resolve", "resolve_external_guard", "resolve_non_null"}

HandlesNext ==
  \/ \E obj \in Refs \cup {NULL} : MakeLocal(obj)
  \/ \E h \in {NULL} \cup IssuedBy({"local", "weak"}) : DestroyLocal(h)
  \/ \E obj \in Refs \cup {NULL} : MakeGlobal(obj)
  \/ \E g \in StorageSlots : DestroyGlobal(g)
  \/ \E obj \in Refs \cup {NULL} : MakeWeakGlobal(obj)
  \/ \E w \in StorageSlots : DestroyWeakGlobal(w)
  \/ \E w \in StorageSlots : WeakClear(w)
  \/ \E kind \in ResolveKinds, h \in Resolvable, native \in BOOLEAN :
       Resolve(kind, h, native)

GuardInit ==
  /\ guardKind \in {"serial", "parallel"}
  /\ claimed = FALSE
  /\ completed = FALSE
  /\ gpc = [t \in Workers |-> "idle"]
  /\ gcalls = [t \in Workers |-> 0]
  /\ entryFlag = [t \in Workers |-> FALSE]
  /\ ranLast = [t \in Workers |-> FALSE]
  /\ serialRuns = 0
  /\ serialDone = 0
  /\ parRuns = [t \in Workers |-> 0]
  /\ parDone = 0
  /\ parSkips = [t \in Workers |-> 0]
  /\ parNext = 1
  /\ mySeg = [t \in Workers |-> 0]
  /\ segOwner = [g \in Segments |-> 0]
  /\ parLive \in (IF guardKind = "parallel" THEN SUBSET ParSlots ELSE {{}})
  /\ visits = [s \in ParSlots |-> 0]

GuardQuiet ==
  /\ guardKind = "none"
  /\ claimed = FALSE
  /\ completed = FALSE
  /\ gpc = [t \in Workers |-> "idle"]
  /\ gcalls = [t \in Workers |-> 0]
  /\ entryFlag = [t \in Workers |-> FALSE]
  /\ ranLast = [t \in Workers |-> FALSE]
  /\ serialRuns = 0
  /\ serialDone = 0
  /\ parRuns = [t \in Workers |-> 0]
  /\ parDone = 0
  /\ parSkips = [t \in Workers |-> 0]
  /\ parNext = 1
  /\ mySeg = [t \in Workers |-> 0]
  /\ segOwner = [g \in Segments |-> 0]
  /\ parLive = {}
  /\ visits = [s \in ParSlots |-> 0]

\* A worker calls ZSerialOopsDo::oops_do and evaluates !_claimed.
SerialEnter(t) ==
  /\ guardKind = "serial"
  /\ gpc[t] = "idle"
  /\ gcalls[t] < MaxCalls
  /\ gcalls' = [gcalls EXCEPT ![t] = @ + 1]
  /\ entryFlag' = [entryFlag EXCEPT ![t] = claimed]
  /\ ranLast' = [ranLast EXCEPT ![t] = FALSE]
  /\ gpc' = [gpc EXCEPT ![t] = IF SerialSeesUnclaimed(claimed) THEN "s_cas" ELSE "idle"]
  /\ UNCHANGED nonGuard
  /\ UNCHANGED <<guardKind, claimed, completed, serialRuns, serialDone, parRuns,
                 parDone, parSkips, parNext, mySeg, segOwner, parLive, visits>>

\* The compare-and-swap of _claimed; the winner goes on to F.
SerialCmpxchg(t) ==
  /\ gpc[t] = "s_cas"
  /\ claimed' = TRUE
  /\ IF SerialClaimSucceeds(claimed)
       THEN /\ gpc' = [gpc EXCEPT ![t] = "s_run"]
            /\ serialRuns' = serialRuns + 1
            /\ ranLast' = [ranLast EXCEPT ![t] = TRUE]
       ELSE /\ gpc' = [gpc EXCEPT ![t] = "idle"]
            /\ UNCHANGED <<serialRuns, ranLast>>
  /\ UNCHANGED nonGuard
  /\ UNCHANGED <<guardKind, completed, gcalls, entryFlag, serialDone, parRuns,
                 parDone, parSkips, parNext, mySeg, segOwner, parLive, visits>>

\* (_iter->*F)(cl) returns and so does the guard.
SerialRun(t) ==
  /\ gpc[t] = "s_run"
  /\ serialDone' = serialDone + 1
  /\ gpc' = [gpc EXCEPT ![t] = "idle"]
  /\ UNCHANGED nonGuard
  /\ UNCHANGED <<guardKind, claimed, completed, gcalls, entryFlag, ranLast,
                 serialRuns, parRuns, parDone, parSkips, parNext, mySeg,
                 segOwner, parLive, visits>>

\* A worker calls ZParallelOopsDo::oops_do and evaluates !_completed.
ParEnter(t) ==
  /\ guardKind = "parallel"
  /\ gpc[t] = "idle"
  /\ gcalls[t] < MaxCalls
  /\ gcalls' = [gcalls EXCEPT ![t] = @ + 1]
  /\ entryFlag' = [entryFlag EXCEPT ![t] = completed]
  /\ IF ParShouldRun(completed)
       THEN /\ gpc' = [gpc EXCEPT ![t] = "p_claim"]
            /\ parRuns' = [parRuns EXCEPT ![t] = @ + 1]
            /\ ranLast' = [ranLast EXCEPT ![t] = TRUE]
            /\ UNCHANGED parSkips
       ELSE /\ gpc' = [gpc EXCEPT ![t] = "idle"]
            /\ parSkips' = [parSkips EXCEPT ![t] = @ + 1]
            /\ ranLast' = [ranLast EXCEPT ![t] = FALSE]
            /\ UNCHANGED parRuns
  /\ UNCHANGED nonGuard
  /\ UNCHANGED <<guardKind, claimed, completed, serialRuns, serialDone, parDone,
                 parNext, mySeg, segOwner, parLive, visits>>

\* F, one round of the partitioned scan: take the next unclaimed segment from
\* the shared partition state, or find none left and return from F.
ParClaim(t) ==
  /\ gpc[t] = "p_claim"
  /\ IF parNext <= NumSegments
       THEN /\ mySeg' = [mySeg EXCEPT ![t] = parNext]
            /\ segOwner' = [segOwner EXCEPT ![parNext] = t]
            /\ parNext' = parNext + 1
            /\ gpc' = [gpc EXCEPT ![t] = "p_visit"]
            /\ UNCHANGED parDone
       ELSE /\ gpc' = [gpc EXCEPT ![t] = "p_flag"]
            /\ parDone' = parDone + 1
            /\ UNCHANGED <<mySeg, segOwner, parNext>>
  /\ UNCHANGED nonGuard
  /\ UNCHANGED <<guardKind, claimed, completed, gcalls, entryFlag, ranLast,
                 serialRuns, serialDone, parRuns, parSkips, parLive, visits>>

\* F presents the live slots of the claimed segment to the closure.
ParVisit(t) ==
  /\ gpc[t] = "p_visit"
  /\ visits' = [s \in ParSlots |->
                  IF s \in SegSlots(mySeg[t]) /\ s \in parLive
                    THEN visits[s] + 1 ELSE visits[s]]
  /\ mySeg' = [mySeg EXCEPT ![t] = 0]
  /\ gpc' = [gpc EXCEPT ![t] = "p_claim"]
  /\ UNCHANGED nonGuard
  /\ UNCHANGED <<guardKind, claimed, completed, gcalls, entryFlag, ranLast,
                 serialRuns, serialDone, parRuns, parDone, parSkips, parNext,
                 segOwner, parLive>>

\* After F: the second if (!_completed).
ParRecheck(t) ==
  /\ gpc[t] = "p_flag"
  /\ gpc' = [gpc EXCEPT ![t] = IF ~completed THEN "p_set" ELSE "idle"]
  /\ UNCHANGED nonGuard
  /\ UNCHANGED <<guardKind, claimed, completed, gcalls, entryFlag, ranLast,
                 serialRuns, serialDone, parRuns, parDone, parSkips, parNext,
                 mySeg, segOwner, parLive, visits>>

ParSet_Toggle(t) ==
  /\ gpc[t] = "p_set"
  /\ completed' = ~completed
  /\ gpc' = [gpc EXCEPT ![t] = "idle"]
  /\ UNCHANGED nonGuard
  /\ UNCHANGED <<guardKind, claimed, gcalls, entryFlag, ranLast, serialRuns,
                 serialDone, parRuns, parDone, parSkips, parNext, mySeg,
                 segOwner, parLive, visits>>

\* _completed = true.
ParSet(t) ==
  /\ gpc[t] = "p_set"
  /\ completed' = TRUE
  /\ gpc' = [gpc EXCEPT ![t] = "idle"]
  /\ UNCHANGED nonGuard
  /\ UNCHANGED <<guardKind, claimed, gcalls, entryFlag, ranLast, serialRuns,
                 serialDone, parRuns, parDone, parSkips, parNext, mySeg,
                 segOwner, parLive, visits>>

GuardNext ==
  \E t \in Workers :
    \/ SerialEnter(t)
    \/ SerialCmpxchg(t)
    \/ SerialRun(t)
    \/ ParEnter(t)
    \/ ParClaim(t)
    \/ ParVisit(t)
    \/ ParRecheck(t)
    \/ ParSet(t)

----------------------------------------------------------------------------
\* The root iterators: ZRootsIterator and ZWeakRootsIterator.

\* The slots of the global and the weak-global storage, by address.
GlobalAddrs == {AddrOf(GlobalSlot(g)) : g \in StorageSlots}
WeakAddrs == {AddrOf(WeakSlot(w)) : w \in StorageSlots}
RootAddrs == GlobalAddrs \cup WeakAddrs

StrongSeq_WeakForJniHandles(weakRoots, visit_jvmti_weak_export) ==
  <<"universe", "jni_weak_handles", "object_synchronizer", "management",
    "jvmti_export", "system_dictionary", "class_loader_data_graph", "threads",
    "code_cache">>
  \o (IF ~weakRoots
        THEN <<"jni_weak_handles", "jvmti_weak_export", "trace", "string_table">>
        ELSE IF visit_jvmti_weak_export THEN <<"jvmti_weak_export">> ELSE <<>>)
StrongSeq_ArgIgnored(weakRoots, visit_jvmti_weak_export) ==
  <<"universe", "jni_handles", "object_synchronizer", "management",
    "jvmti_export", "system_dictionary", "class_loader_data_graph", "threads",
    "code_cache">>
  \o (IF ~weakRoots
        THEN <<"jni_weak_handles", "jvmti_weak_export", "trace", "string_table">>
        ELSE <<>>)
\* ZRootsIterator::oops_do(cl, visit_jvmti_weak_export): the guards it calls,
\* in order.
StrongSeq(weakRoots, visit_jvmti_weak_export) ==
  <<"universe", "jni_handles", "object_synchronizer", "management",
    "jvmti_export", "system_dictionary", "class_loader_data_graph", "threads",
    "code_cache">>
  \o (IF ~weakRoots
        THEN <<"jni_weak_handles", "jvmti_weak_export", "trace", "string_table">>
        ELSE IF visit_jvmti_weak_export THEN <<"jvmti_weak_export">> ELSE <<>>)

WeakSeq_ConcTestInverted(weakRoots, concJNI) ==
  <<"symbol_table">>
  \o (IF weakRoots
        THEN (IF concJNI THEN <<"jni_weak_handles">> ELSE <<>>)
             \o <<"jvmti_weak_export", "trace", "string_table">>
        ELSE <<>>)
WeakSeq_SymbolTableGated(weakRoots, concJNI) ==
  IF weakRoots
    THEN <<"symbol_table">>
         \o (IF ~concJNI THEN <<"jni_weak_handles">> ELSE <<>>)
         \o <<"jvmti_weak_export", "trace", "string_table">>
    ELSE <<"string_table">>
\* ZWeakRootsIterator::unlink_or_oops_do(is_alive, cl): the guards it calls,
\* in order.
WeakSeq(weakRoots, concJNI) ==
  <<"symbol_table">>
  \o (IF weakRoots
        THEN (IF ~concJNI THEN <<"jni_weak_handles">> ELSE <<>>)
             \o <<"jvmti_weak_export", "trace", "string_table">>
        ELSE <<>>)

\* The guards an iterator object has as members.
StrongGroups ==
  {"universe", "jni_handles", "jni_weak_handles", "object_synchronizer",
   "management", "jvmti_export", "jvmti_weak_export", "trace",
   "system_dictionary", "class_loader_data_graph", "threads", "code_cache",
   "string_table"}
WeakGroups ==
  {"jni_weak_handles", "jvmti_weak_export", "trace", "symbol_table", "string_table"}
Groups == StrongGroups \cup WeakGroups

\* The guard type each member is declared with: the groups whose traversal
\* partitions its own work among the workers that enter it have the parallel
\* guard, the others the serial one.
ParallelGroups ==
  {"class_loader_data_graph", "threads", "code_cache", "string_table", "symbol_table"}
\* The one guard of the concurrent iterator is the parallel one.
IsSerial(group) == group \notin ParallelGroups /\ iter # "conc"

\* JNIHandles::oops_do(f): a full scan of the global storage, presenting
\* every allocated slot to f.
jni_oops_do(g, v) ==
  [a \in RootAddrs |->
     IF \E k \in StorageSlots : a = AddrOf(GlobalSlot(k)) /\ g[k] # Unalloc
       THEN v[a] + 1 ELSE v[a]]

\* JNIHandles::weak_oops_do(is_alive, f): a full scan of the weak storage;
\* an allocated slot with a live referent is presented to f, one with a dead
\* referent is cleared.  deadset is what is_alive reports dead.
jni_weak_oops_do_visits(w, v, deadset) ==
  [a \in RootAddrs |->
     IF \E k \in StorageSlots :
          a = AddrOf(WeakSlot(k)) /\ w[k] # Unalloc /\ w[k] # NULL /\ w[k] \notin deadset
       THEN v[a] + 1 ELSE v[a]]
jni_weak_oops_do_mem(w, deadset) ==
  [k \in StorageSlots |->
     IF w[k] = Unalloc THEN Unalloc ELSE weak_oops_do_slot(w[k], w[k] \notin deadset)]

\* The Java threads whose stacks are roots.
JavaThreads == 1 .. NumThreads

\* Threads::change_thread_claim_parity(): the token alternates between 1 and
\* 2, and is 0 before the first pass.
change_thread_claim_parity(p) == IF p + 1 = 3 THEN 1 ELSE p + 1

\* Thread::claim_oops_do(is_par, parity): the thread is claimed by the caller
\* that finds its parity different from the pass's.
claim_oops_do_Always(thread_parity, p) == TRUE
claim_oops_do(thread_parity, p) == thread_parity # p

\* Threads::assert_all_threads_claimed(): every thread carries the pass's
\* parity.
all_threads_claimed_Inverted(tc, p) == \E thr \in JavaThreads : tc[thr] # p
all_threads_claimed(tc, p) == \A thr \in JavaThreads : tc[thr] = p

\* The constructors that assert SafepointSynchronize::is_at_safepoint(), the
\* constructors that call Threads::change_thread_claim_parity(), and the
\* destructors that call Threads::assert_all_threads_claimed().
NeedsSafepoint(kind) == kind \in {"strong", "weak", "thread"}
AdvancesParity(kind) == kind \in {"strong", "thread"}
AssertsAllClaimed(kind) == kind \in {"strong", "thread"}

\* ZConcurrentWeakRootsIterator::oops_do(cl): the guards the call goes through.
ConcSeq_EitherSwitch(weakRoots, concJNI) ==
  IF weakRoots \/ concJNI THEN <<"jni_weak_handles">> ELSE <<>>
ConcSeq_NoWeakRootsTest(weakRoots, concJNI) ==
  IF concJNI THEN <<"jni_weak_handles">> ELSE <<>>
ConcSeq(weakRoots, concJNI) ==
  IF weakRoots
    THEN IF concJNI THEN <<"jni_weak_handles">> ELSE <<>>
    ELSE <<>>

\* ZThreadRootsIterator::oops_do(cl): the guards the call goes through.
ThreadSeq == <<"threads">>

\* The symbols the table can hold.
Symbols == 1 .. NumSymbols

\* SymbolTable::possibly_parallel_unlink(&processed, &removed): the entries
\* of symbols no reference is left to are unlinked; the call takes no
\* liveness predicate.
possibly_parallel_unlink(tab, unref) == tab \ unref

\* The iterators a collection cycle runs, and the record of a pass that has
\* not run.
CycleKinds == {"strong", "weak", "conc"}
NotRun == [done |-> FALSE, ran |-> {}, visitJvmti |-> FALSE]

\* No pass has run: the claim parity and every thread's parity are 0, the
\* threads run, every symbol is linked and referenced.
PInit ==
  /\ symtab = Symbols
  /\ symUnref = {}
  /\ safepoint = FALSE
  /\ parity = 0
  /\ tclaim = [thr \in JavaThreads |-> 0]
  /\ tscans = [thr \in JavaThreads |-> 0]
  /\ parState = 1
  /\ rpos = [t \in Workers |-> 1]
  /\ assertFailed = FALSE
  /\ scanStart = {}
  /\ destroyedIn = {}
  /\ cycle = [kind \in CycleKinds |-> NotRun]

RootsIdle == [todo |-> <<>>, st |-> "idle", always |-> FALSE]
RootsAllIdle == \A t \in Workers : rpc[t] = RootsIdle

\* No iterator exists yet; the two switches have any setting.
RootsInit ==
  /\ zWeakRoots \in BOOLEAN
  /\ zConcJNI \in BOOLEAN
  /\ iter = "none"
  /\ rflag = [grp \in Groups |-> FALSE]
  /\ rpc = [t \in Workers |-> RootsIdle]
  /\ rcalls = 0
  /\ rreturned = 0
  /\ ran = {}
  /\ rvisits = [a \in RootAddrs |-> 0]
  /\ prevVisits = [a \in RootAddrs |-> 0]
  /\ dead = {}
  /\ usedAlways = FALSE
  /\ sawVisitJvmti = FALSE
  /\ passes = 0
  /\ PInit

\* The root iterators are not part of the run.
RootsQuiet ==
  /\ zWeakRoots = TRUE
  /\ zConcJNI = TRUE
  /\ iter = "none"
  /\ rflag = [grp \in Groups |-> FALSE]
  /\ rpc = [t \in Workers |-> RootsIdle]
  /\ rcalls = 0
  /\ rreturned = 0
  /\ ran = {}
  /\ rvisits = [a \in RootAddrs |-> 0]
  /\ prevVisits = [a \in RootAddrs |-> 0]
  /\ dead = {}
  /\ usedAlways = FALSE
  /\ sawVisitJvmti = FALSE
  /\ passes = 0
  /\ PInit

\* The VM thread brings the threads to a safepoint, and lets them run again.
SafepointBegin ==
  /\ ~safepoint
  /\ iter = "none"
  /\ safepoint' = TRUE
  /\ UNCHANGED <<gvars, hvars, svars, zWeakRoots, zConcJNI, iter, rflag, rpc, rcalls,
                 rreturned, ran, rvisits, prevVisits, dead, usedAlways,
                 sawVisitJvmti, passes, parity, tclaim, tscans, parState, rpos,
                 assertFailed, scanStart, destroyedIn,
                 cycle>>
SafepointEnd ==
  /\ safepoint
  /\ iter = "none"
  /\ safepoint' = FALSE
  /\ UNCHANGED <<gvars, hvars, svars, zWeakRoots, zConcJNI, iter, rflag, rpc, rcalls,
                 rreturned, ran, rvisits, prevVisits, dead, usedAlways,
                 sawVisitJvmti, passes, parity, tclaim, tscans, parState, rpos,
                 assertFailed, scanStart, destroyedIn,
                 cycle>>

\* The constructor of an iterator: every guard starts with its flag false.
\* The constructors of the pause iterators assert the safepoint; those of the
\* strong and the thread iterator advance the claim parity; that of the
\* concurrent iterator makes the partition state of the weak storage.  The
\* closure of the pass starts with no address recorded.
construct(kind) ==
  /\ iter = "none"
  /\ NeedsSafepoint(kind) => safepoint
  /\ parity' = IF AdvancesParity(kind) THEN change_thread_claim_parity(parity) ELSE parity
  /\ tscans' = [thr \in JavaThreads |-> 0]
  /\ parState' = 1
  /\ scanStart' = IF kind = "conc" THEN {k \in StorageSlots : wmem[k] # Unalloc} ELSE {}
  /\ destroyedIn' = {}
  /\ UNCHANGED <<safepoint, tclaim, rpos, assertFailed>>
  /\ iter' = kind
  /\ rflag' = [grp \in Groups |-> FALSE]
  /\ rcalls' = 0
  /\ rreturned' = 0
  /\ ran' = {}
  /\ prevVisits' = rvisits
  /\ rvisits' = [a \in RootAddrs |-> 0]
  /\ usedAlways' = FALSE
  /\ sawVisitJvmti' = FALSE
  /\ passes' = passes + 1
  /\ UNCHANGED <<gvars, hvars, svars, zWeakRoots, zConcJNI, rpc, dead, cycle>>

\* An iterator is constructed, one of a bounded sequence of iterators.
Construct(kind) == passes < MaxPasses /\ construct(kind)

\* The destructor, once no worker is inside the iterator: the guards, members
\* of the iterator, are gone with it.  What the closure recorded stays.  The
\* destructors of the strong and the thread iterator assert that every thread
\* was claimed.
destruct ==
  /\ iter # "none"
  /\ RootsAllIdle
  /\ assertFailed' = IF AssertsAllClaimed(iter)
                       THEN ~all_threads_claimed(tclaim, parity)
                       ELSE assertFailed
  /\ parState' = 1
  /\ scanStart' = {}
  /\ destroyedIn' = {}
  /\ UNCHANGED <<safepoint, parity, tclaim, tscans, rpos>>
  /\ iter' = "none"
  /\ rflag' = [grp \in Groups |-> FALSE]
  /\ rcalls' = 0
  /\ rreturned' = 0
  /\ ran' = {}
  /\ usedAlways' = FALSE
  /\ sawVisitJvmti' = FALSE
  /\ UNCHANGED <<gvars, hvars, svars, zWeakRoots, zConcJNI, rpc, rvisits, prevVisits, dead, passes>>

\* An iterator of a sequence of iterators is destroyed.
Destruct == destruct /\ UNCHANGED cycle

\* The collection cycle constructs each of its three iterators once, and
\* destroys it after its workers have called the entry point; what the pass
\* ran is on record for the rest of the cycle.
CycleConstruct(kind) == ~cycle[kind].done /\ construct(kind)
CycleDestruct ==
  /\ rcalls >= 1
  /\ destruct
  /\ cycle' = [cycle EXCEPT ![iter] = [done |-> TRUE, ran |-> ran,
                                      visitJvmti |-> sawVisitJvmti]]

\* The guard worker t is at: the first of the guards its call has yet to go
\* through.
GroupAt(t) == Head(rpc[t].todo)

\* Worker t is done with the guard it is at: the next guard of the entry
\* point, or the return.
Advance(t) ==
  /\ rpc' = [rpc EXCEPT ![t] = IF Len(rpc[t].todo) = 1
                                 THEN RootsIdle
                                 ELSE [rpc[t] EXCEPT !.todo = Tail(@), !.st = "call"]]
  /\ rreturned' = IF Len(rpc[t].todo) = 1 THEN rreturned + 1 ELSE rreturned

\* Worker t calls ZRootsIterator::oops_do(cl, visit_jvmti_weak_export).
StrongCall(t, visit_jvmti_weak_export) ==
  /\ iter = "strong"
  /\ rpc[t] = RootsIdle
  /\ rcalls < MaxCalls
  /\ rpc' = [rpc EXCEPT ![t] = [todo |-> StrongSeq(zWeakRoots, visit_jvmti_weak_export),
                                 st |-> "call", always |-> FALSE]]
  /\ rcalls' = rcalls + 1
  /\ UNCHANGED <<gvars, hvars, svars, zWeakRoots, zConcJNI, pvars, iter, rflag, rreturned, ran,
                 rvisits, prevVisits, dead, usedAlways, passes>>
  /\ sawVisitJvmti' = (sawVisitJvmti \/ (zWeakRoots /\ visit_jvmti_weak_export))

\* Worker t calls ZWeakRootsIterator::unlink_or_oops_do(is_alive, cl) with the
\* collector's is_alive, or ZWeakRootsIterator::oops_do(cl), which calls it
\* with an always-true is_alive.
WeakCall(t, always_alive) ==
  /\ iter = "weak"
  /\ rpc[t] = RootsIdle
  /\ rcalls < MaxCalls
  /\ rpc' = [rpc EXCEPT ![t] = [todo |-> WeakSeq(zWeakRoots, zConcJNI),
                                 st |-> "call", always |-> always_alive]]
  /\ rcalls' = rcalls + 1
  /\ usedAlways' = (usedAlways \/ always_alive)
  /\ UNCHANGED sawVisitJvmti
  /\ UNCHANGED <<gvars, hvars, svars, zWeakRoots, zConcJNI, pvars, iter, rflag, rreturned, ran,
                 rvisits, prevVisits, dead, passes>>

\* Worker t calls ZThreadRootsIterator::oops_do(cl).
ThreadCall(t) ==
  /\ iter = "thread"
  /\ rpc[t] = RootsIdle
  /\ rcalls < MaxCalls
  /\ rpc' = [rpc EXCEPT ![t] = [todo |-> ThreadSeq, st |-> "call", always |-> FALSE]]
  /\ rcalls' = rcalls + 1
  /\ UNCHANGED <<gvars, hvars, svars, zWeakRoots, zConcJNI, pvars, iter, rflag, rreturned, ran,
                 rvisits, prevVisits, dead, usedAlways, sawVisitJvmti, passes>>

\* Worker t calls ZConcurrentWeakRootsIterator::oops_do(cl); with a switch
\* off the call returns at once.
ConcCall(t) ==
  /\ iter = "conc"
  /\ rpc[t] = RootsIdle
  /\ rcalls < MaxCalls
  /\ rcalls' = rcalls + 1
  /\ LET seq == ConcSeq(zWeakRoots, zConcJNI) IN
     IF seq = <<>>
       THEN /\ rreturned' = rreturned + 1
            /\ UNCHANGED rpc
       ELSE /\ rpc' = [rpc EXCEPT ![t] = [todo |-> seq, st |-> "call", always |-> FALSE]]
            /\ UNCHANGED rreturned
  /\ UNCHANGED <<gvars, hvars, svars, zWeakRoots, zConcJNI, pvars, iter, rflag, ran,
                 rvisits, prevVisits, dead, usedAlways, sawVisitJvmti, passes>>

\* Worker t enters the guard it is at: the test of the flag, with the
\* compare-and-swap of the serial guard.
RootsGuard(t) ==
  /\ rpc[t].st = "call"
  /\ LET grp == GroupAt(t) IN
     IF IsSerial(grp)
       THEN IF SerialSeesUnclaimed(rflag[grp]) /\ SerialClaimSucceeds(rflag[grp])
              THEN /\ rflag' = [rflag EXCEPT ![grp] = TRUE]
                   /\ rpc' = [rpc EXCEPT ![t].st = "run"]
                   /\ UNCHANGED rreturned
              ELSE /\ Advance(t)
                   /\ UNCHANGED rflag
       ELSE IF ParShouldRun(rflag[grp])
              THEN /\ rpc' = [rpc EXCEPT ![t].st = "run"]
                   /\ UNCHANGED <<rflag, rreturned>>
              ELSE /\ Advance(t)
                   /\ UNCHANGED rflag
  /\ UNCHANGED <<gvars, hvars, svars, zWeakRoots, zConcJNI, pvars, iter, rcalls, ran, rvisits,
                 prevVisits, dead, usedAlways, sawVisitJvmti, passes>>

\* The weak handles a scan of the weak storage clears.
ClearedBy(w, deadset) ==
  {make_jweak(AddrOf(WeakSlot(k))) :
     k \in {j \in StorageSlots : w[j] # Unalloc /\ w[j] # NULL /\ w[j] \in deadset}}

\* The traversal functions that hand their work out piece by piece to the
\* workers inside them: the scan of the threads' stacks, and the scan of the
\* weak storage through its partition state.
Partitioned(grp) ==
  \/ grp = "threads"
  \/ iter = "conc" /\ grp = "jni_weak_handles"

\* Worker t's traversal function returns: the guard records that the group
\* ran, and the parallel guard tests its flag again.
Finish(t) ==
  /\ ran' = ran \cup {GroupAt(t)}
  /\ IF ~IsSerial(GroupAt(t)) /\ ParShouldRun(rflag[GroupAt(t)])
       THEN /\ rpc' = [rpc EXCEPT ![t].st = "set"]
            /\ UNCHANGED rreturned
       ELSE Advance(t)

\* The traversal function of the guard worker t is in runs: do_jni_handles and
\* the two do_jni_weak_handles scan the handle storage, the other groups are
\* roots outside the handle table.  After it the parallel guard tests its flag
\* again.
RootsRun(t) ==
  /\ rpc[t].st = "run"
  /\ ~Partitioned(GroupAt(t))
  /\ LET grp == GroupAt(t)
         deadset == IF iter = "weak" /\ ~rpc[t].always THEN dead ELSE {}
     IN
     /\ CASE grp = "jni_handles" ->
               /\ rvisits' = jni_oops_do(gmem, rvisits)
               /\ UNCHANGED <<wmem, clearedWeak, symtab>>
          [] grp = "jni_weak_handles" ->
               /\ rvisits' = jni_weak_oops_do_visits(wmem, rvisits, deadset)
               /\ wmem' = jni_weak_oops_do_mem(wmem, deadset)
               /\ clearedWeak' = clearedWeak \cup ClearedBy(wmem, deadset)
               /\ UNCHANGED symtab
          [] grp = "symbol_table" ->
               /\ symtab' = possibly_parallel_unlink(symtab, symUnref)
               /\ UNCHANGED <<rvisits, wmem, clearedWeak>>
          [] OTHER -> UNCHANGED <<rvisits, wmem, clearedWeak, symtab>>
     /\ Finish(t)
  /\ UNCHANGED <<gvars, chain, gmem, issued, liveLocal, deadLocal, madeFor, last, ops,
                 symUnref, zWeakRoots, zConcJNI, pvars, iter, rflag, rcalls, prevVisits, dead,
                 usedAlways, sawVisitJvmti, passes>>

\* Threads::possibly_parallel_oops_do(true, cl, NULL), one thread of the list
\* at a time: the worker claims the thread if its parity is not the pass's,
\* and scans the stack of a thread it claimed; after the last thread the
\* traversal function returns.
ThreadsStep(t) ==
  /\ rpc[t].st = "run"
  /\ GroupAt(t) = "threads"
  /\ IF rpos[t] <= NumThreads
       THEN /\ IF claim_oops_do(tclaim[rpos[t]], parity)
                 THEN /\ tclaim' = [tclaim EXCEPT ![rpos[t]] = parity]
                      /\ tscans' = [tscans EXCEPT ![rpos[t]] = @ + 1]
                 ELSE UNCHANGED <<tclaim, tscans>>
            /\ rpos' = [rpos EXCEPT ![t] = @ + 1]
            /\ UNCHANGED <<rpc, rreturned, ran>>
       ELSE /\ rpos' = [rpos EXCEPT ![t] = 1]
            /\ Finish(t)
            /\ UNCHANGED <<tclaim, tscans>>
  /\ UNCHANGED <<gvars, hvars, svars, zWeakRoots, zConcJNI, iter, rflag, rcalls, rvisits,
                 prevVisits, dead, usedAlways, sawVisitJvmti, passes, safepoint,
                 parity, parState, assertFailed, scanStart, destroyedIn,
                 cycle>>

\* OopStorage::ParState::oops_do(cl) of the weak storage: the worker takes the
\* next slice the partition state hands out; with none left the traversal
\* function returns.
par_state_claim_Stuck(next) == next
par_state_claim(next) == next + 1
ConcClaim(t) ==
  /\ iter = "conc"
  /\ rpc[t].st = "run"
  /\ GroupAt(t) = "jni_weak_handles"
  /\ IF parState <= NumStorageSlots
       THEN /\ rpos' = [rpos EXCEPT ![t] = parState]
            /\ parState' = par_state_claim(parState)
            /\ rpc' = [rpc EXCEPT ![t].st = "visit"]
            /\ UNCHANGED <<rreturned, ran>>
       ELSE /\ Finish(t)
            /\ UNCHANGED <<rpos, parState>>
  /\ UNCHANGED <<gvars, hvars, svars, zWeakRoots, zConcJNI, iter, rflag, rcalls, rvisits,
                 prevVisits, dead, usedAlways, sawVisitJvmti, passes, safepoint,
                 parity, tclaim, tscans, assertFailed, scanStart, destroyedIn,
                 cycle>>

\* ... and presents the slot of its slice to the closure, if the slot is
\* allocated by now.
ConcVisit(t) ==
  /\ rpc[t].st = "visit"
  /\ rvisits' = [rvisits EXCEPT ![AddrOf(WeakSlot(rpos[t]))] =
                   IF wmem[rpos[t]] # Unalloc THEN @ + 1 ELSE @]
  /\ rpos' = [rpos EXCEPT ![t] = 1]
  /\ rpc' = [rpc EXCEPT ![t].st = "run"]
  /\ UNCHANGED <<gvars, hvars, svars, zWeakRoots, zConcJNI, iter, rflag, rcalls, rreturned,
                 ran, prevVisits, dead, usedAlways, sawVisitJvmti, passes, safepoint,
                 parity, tclaim, tscans, parState, assertFailed, scanStart, destroyedIn,
                 cycle>>

\* _completed = true of the parallel guard.
RootsSet(t) ==
  /\ rpc[t].st = "set"
  /\ rflag' = [rflag EXCEPT ![GroupAt(t)] = TRUE]
  /\ Advance(t)
  /\ UNCHANGED <<gvars, hvars, svars, zWeakRoots, zConcJNI, pvars, iter, rcalls, ran, rvisits,
                 prevVisits, dead, usedAlways, sawVisitJvmti, passes>>

\* The collector's marking finds obj unreachable: is_alive reports it dead
\* from now on.
MarkDead(obj) ==
  /\ iter = "none"
  /\ obj \notin dead
  /\ dead' = dead \cup {obj}
  /\ UNCHANGED <<gvars, hvars, svars, zWeakRoots, zConcJNI, pvars, iter, rflag, rpc, rcalls,
                 rreturned, ran, rvisits, prevVisits, usedAlways, sawVisitJvmti, passes>>

\* The last reference to a symbol goes away while the threads run.
SymbolRelease(sym) ==
  /\ ~safepoint
  /\ sym \in symtab \ symUnref
  /\ symUnref' = symUnref \cup {sym}
  /\ UNCHANGED <<gvars, hvars, symtab, zWeakRoots, zConcJNI, pvars, iter, rflag, rpc,
                 rcalls, rreturned, ran, rvisits, prevVisits, dead, usedAlways,
                 sawVisitJvmti, passes>>

\* The threads that use the handle table run: they are not at a safepoint.
Mutable == ~safepoint /\ ops < MaxMutations

\* The strong iterator, with threads making and destroying global handles
\* between the pauses.
StrongNext ==
  \/ \E obj \in Refs : Mutable /\ MakeGlobal(obj)
  \/ \E g \in StorageSlots : Mutable /\ DestroyGlobal(g)
  \/ SafepointBegin
  \/ SafepointEnd
  \/ Construct("strong")
  \/ \E t \in Workers, arg \in BOOLEAN : StrongCall(t, arg)
  \/ \E t \in Workers : RootsGuard(t)
  \/ \E t \in Workers : RootsRun(t)
  \/ \E t \in Workers : ThreadsStep(t)
  \/ \E t \in Workers : RootsSet(t)
  \/ Destruct

\* The weak iterator, with threads making weak handles and the collector
\* marking between the pauses.
WeakNext ==
  \/ \E obj \in Refs : Mutable /\ MakeWeakGlobal(obj)
  \/ \E obj \in Refs : MarkDead(obj)
  \/ SafepointBegin
  \/ SafepointEnd
  \/ Construct("weak")
  \/ \E t \in Workers, arg \in BOOLEAN : WeakCall(t, arg)
  \/ \E t \in Workers : RootsGuard(t)
  \/ \E t \in Workers : RootsRun(t)
  \/ \E t \in Workers : RootsSet(t)
  \/ Destruct

\* The strong and the thread iterator, pause after pause, with the handle
\* table left alone.
ThreadsNext ==
  \/ SafepointBegin
  \/ SafepointEnd
  \/ Construct("strong")
  \/ Construct("thread")
  \/ \E t \in Workers, arg \in BOOLEAN : StrongCall(t, arg)
  \/ \E t \in Workers : ThreadCall(t)
  \/ \E t \in Workers : RootsGuard(t)
  \/ \E t \in Workers : RootsRun(t)
  \/ \E t \in Workers : ThreadsStep(t)
  \/ \E t \in Workers : RootsSet(t)
  \/ Destruct

\* JNIHandles::destroy_weak_global(handle) by a thread that runs beside the
\* concurrent iterator.
ConcDestroyWeakGlobal(w) ==
  /\ destroy_weak_global(w)
  /\ destroyedIn' = IF iter = "conc" THEN destroyedIn \cup {w} ELSE destroyedIn
  /\ UNCHANGED <<gvars, svars, zWeakRoots, zConcJNI, iter, rflag, rpc, rcalls, rreturned,
                 ran, rvisits, prevVisits, dead, usedAlways, sawVisitJvmti, passes,
                 safepoint, parity, tclaim, tscans, parState, rpos, assertFailed,
                 scanStart, cycle>>

\* The concurrent weak iterator, with threads making and destroying weak
\* handles while they run, beside the iterator or not.
ConcNext ==
  \/ \E obj \in Refs : Mutable /\ MakeWeakGlobal(obj)
  \/ \E w \in StorageSlots : Mutable /\ ConcDestroyWeakGlobal(w)
  \/ SafepointBegin
  \/ SafepointEnd
  \/ Construct("conc")
  \/ \E t \in Workers : ConcCall(t)
  \/ \E t \in Workers : RootsGuard(t)
  \/ \E t \in Workers : ConcClaim(t)
  \/ \E t \in Workers : ConcVisit(t)
  \/ \E t \in Workers : RootsSet(t)
  \/ Destruct

\* The weak iterator used through ZWeakRootsIterator::oops_do only, with
\* threads making weak handles and dropping symbols and the collector marking
\* between the pauses.
VisitOnlyNext ==
  \/ \E obj \in Refs : Mutable /\ MakeWeakGlobal(obj)
  \/ \E obj \in Refs : MarkDead(obj)
  \/ \E sym \in Symbols : SymbolRelease(sym)
  \/ SafepointBegin
  \/ SafepointEnd
  \/ Construct("weak")
  \/ \E t \in Workers : WeakCall(t, TRUE)
  \/ \E t \in Workers : RootsGuard(t)
  \/ \E t \in Workers : RootsRun(t)
  \/ \E t \in Workers : RootsSet(t)
  \/ Destruct

\* One collection cycle: the strong, the weak and the concurrent weak
\* iterator, each once, in any order, with the handle table left alone.
CycleNext ==
  \/ SafepointBegin
  \/ SafepointEnd
  \/ \E kind \in CycleKinds : CycleConstruct(kind)
  \/ \E t \in Workers, arg \in BOOLEAN : StrongCall(t, arg)
  \/ \E t \in Workers, arg \in BOOLEAN : WeakCall(t, arg)
  \/ \E t \in Workers : ConcCall(t)
  \/ \E t \in Workers : RootsGuard(t)
  \/ \E t \in Workers : RootsRun(t)
  \/ \E t \in Workers : ThreadsStep(t)
  \/ \E t \in Workers : ConcClaim(t)
  \/ \E t \in Workers : ConcVisit(t)
  \/ \E t \in Workers : RootsSet(t)
  \/ CycleDestruct

\* A step of worker t inside a call of an aggregate entry point.
WorkerStep(t) ==
  \/ RootsGuard(t)
  \/ RootsRun(t)
  \/ ThreadsStep(t)
  \/ ConcClaim(t)
  \/ ConcVisit(t)
  \/ RootsSet(t)

\* Iterators of the four kinds, one after another, with the handle table
\* left alone.
AllKinds == {"strong", "weak", "conc", "thread"}
LiveNext ==
  \/ SafepointBegin
  \/ SafepointEnd
  \/ \E kind \in AllKinds : Construct(kind)
  \/ \E t \in Workers, arg \in BOOLEAN : StrongCall(t, arg)
  \/ \E t \in Workers, arg \in BOOLEAN : WeakCall(t, arg)
  \/ \E t \in Workers : ConcCall(t)
  \/ \E t \in Workers : ThreadCall(t)
  \/ \E t \in Workers : WorkerStep(t)
  \/ Destruct

\* The workers and one guard instance; the handle table is left alone.
GuardStart == GuardInit /\ HandleInit(0) /\ RootsQuiet
SpecGuard == GuardStart /\ [][GuardNext]_vars

\* The handle table; a chain that is empty, or one handle short of filling
\* its first block.
HandlesStart ==
  GuardQuiet /\ RootsQuiet /\ \E filled \in {0, block_size_in_oops - 1} : HandleInit(filled)
SpecHandles == HandlesStart /\ [][HandlesNext]_vars

\* The handle table of a thread whose chain has k blocks and `filled` live
\* handles, every one of them handed out by make_local.
ChainHandleInit(k, filled) ==
  /\ chain = ChainOfBlocks(k, filled)
  /\ gmem = [g \in StorageSlots |-> Unalloc]
  /\ wmem = [w \in StorageSlots |-> Unalloc]
  /\ issued = {<<AddrOf(j), "local", AddrOf(j)>> : j \in 1..filled}
  /\ liveLocal = {<<AddrOf(j), 1>> : j \in 1..filled}
  /\ deadLocal = {}
  /\ clearedWeak = {}
  /\ madeFor = [w \in StorageSlots |-> NULL]
  /\ last = Call("none", NULL, NULL, FALSE, NoViol, FALSE)
  /\ ops = 0

\* Allocation only: make_local on a chain of k blocks, filled to any level,
\* with no handle destroyed.
ChainStart ==
  /\ GuardQuiet
  /\ RootsQuiet
  /\ \E k \in 1..(MaxBlocks - 1) :
       \E filled \in 0..(k * block_size_in_oops) : ChainHandleInit(k, filled)
ChainNext == \E obj \in Refs \cup {NULL} : MakeLocal(obj)
SpecChain == ChainStart /\ [][ChainNext]_vars

\* make_local and destroy_local on one chain: a single block that is empty,
\* one handle short of full, or full, every handle in it live; destroy_local
\* is called with the null handle or a handle make_local returned, live or
\* already destroyed.
LocalStart ==
  /\ GuardQuiet
  /\ RootsQuiet
  /\ \E filled \in {0, block_size_in_oops - 1, block_size_in_oops} :
       ChainHandleInit(1, filled)
LocalNext ==
  \/ \E obj \in Refs \cup {NULL} : MakeLocal(obj)
  \/ \E h \in {NULL} \cup IssuedBy({"local"}) : DestroyLocal(h)
SpecLocal == LocalStart /\ [][LocalNext]_vars

\* The strong pass over a global storage that is empty at first.
StrongStart == GuardQuiet /\ HandleInit(0) /\ RootsInit
SpecStrong == StrongStart /\ [][StrongNext]_vars

\* The weak pass over a weak storage that is empty at first.
WeakStart == GuardQuiet /\ HandleInit(0) /\ RootsInit
SpecWeak == WeakStart /\ [][WeakNext]_vars

\* The passes over the threads' stacks.
ThreadsStart == GuardQuiet /\ HandleInit(0) /\ RootsInit
SpecThreads == ThreadsStart /\ [][ThreadsNext]_vars

\* The handle table with the weak handles of `live` made, each for the same
\* object.
WeakHandleInit(live) ==
  /\ chain = ChainInit(0)
  /\ gmem = [g \in StorageSlots |-> Unalloc]
  /\ wmem = [w \in StorageSlots |-> IF w \in live THEN 1 ELSE Unalloc]
  /\ issued = {<<make_jweak(AddrOf(WeakSlot(w))), "weak", AddrOf(WeakSlot(w))>> : w \in live}
  /\ liveLocal = {}
  /\ deadLocal = {}
  /\ clearedWeak = {}
  /\ madeFor = [w \in StorageSlots |-> IF w \in live THEN 1 ELSE NULL]
  /\ last = Call("none", NULL, NULL, FALSE, NoViol, FALSE)
  /\ ops = 0

\* The concurrent weak scan over a weak storage with any of its slots
\* allocated.
ConcStart ==
  /\ GuardQuiet
  /\ RootsInit
  /\ \E live \in SUBSET StorageSlots : WeakHandleInit(live)
SpecConc == ConcStart /\ [][ConcNext]_vars

\* The visit-only weak pass over a weak storage that is empty at first.
VisitOnlyStart == GuardQuiet /\ HandleInit(0) /\ RootsInit
SpecVisitOnly == VisitOnlyStart /\ [][VisitOnlyNext]_vars

\* A collection cycle under any setting of the switches.
CycleStart == GuardQuiet /\ HandleInit(0) /\ RootsInit
SpecCycle == CycleStart /\ [][CycleNext]_vars

\* The iterators with workers that keep running: a worker inside a call is
\* scheduled again, and the traversal function it is in returns.
LiveStart == GuardQuiet /\ HandleInit(0) /\ RootsInit
SpecLive ==
  LiveStart /\ [][LiveNext]_vars /\ \A t \in Workers : WF_vars(WorkerStep(t))

GuardAllIdle == \A t \in Workers : gpc[t] = "idle"

(* ------------------------------- C1 ------------------------------------ *)
\* C1: with any number of workers calling one serial guard any number of
\* times in any interleaving, F is invoked exactly once in total: never more
\* than once, exactly once as soon as _claimed is set, and every call that
\* has returned while F was not its own left F alone.
C1_SerialExactlyOnce ==
  guardKind = "serial" =>
    /\ serialRuns = (IF claimed THEN 1 ELSE 0)
    /\ Cardinality({t \in Workers : gpc[t] = "s_run"}) + serialDone = serialRuns
    /\ (\E t \in Workers : gcalls[t] > 0 /\ gpc[t] = "idle") => serialRuns = 1

\* Every worker has made all its calls and returned; F ran once.
C1_Witness ==
  /\ guardKind = "serial"
  /\ GuardAllIdle
  /\ \A t \in Workers : gcalls[t] = MaxCalls
  /\ serialRuns = 1
  /\ serialDone = 1

(* ------------------------------- C2 ------------------------------------ *)
\* C2 as stated: every call of the parallel guard's entry point invokes F;
\* no call returns without having run it.
C2_EveryCallRuns ==
  guardKind = "parallel" => \A t \in Workers : parSkips[t] = 0

\* C2 as amended: a call of the parallel guard invokes F exactly when it
\* reads _completed as false on entry; a call that starts after the flag
\* has been set returns without invoking F, and a call is skipped only
\* once the flag is set.
C2_RunsIffFlagClearOnEntry ==
  guardKind = "parallel" =>
    \A t \in Workers :
      /\ gcalls[t] > 0 => (ranLast[t] <=> ~entryFlag[t])
      /\ parRuns[t] + parSkips[t] = gcalls[t]
      /\ parSkips[t] > 0 => completed

\* One worker ran F and set the flag; a later call of another worker was
\* skipped.
C2_Witness ==
  /\ guardKind = "parallel"
  /\ completed
  /\ \E t, u \in Workers :
       /\ t # u
       /\ parRuns[t] > 0
       /\ parSkips[u] > 0
       /\ entryFlag[u] /\ ~ranLast[u]

(* ------------------------------- C3 ------------------------------------ *)
\* C3: when the workers call a parallel guard whose F takes disjoint
\* segments from a shared partition state, then once at least one call was
\* made and every caller has returned, each live slot was presented to the
\* closure exactly once and no other slot was presented at all.
C3_ParallelVisitsLiveSetOnce ==
  (guardKind = "parallel" /\ GuardAllIdle /\ \E t \in Workers : gcalls[t] > 0)
    => \A s \in ParSlots : visits[s] = (IF s \in parLive THEN 1 ELSE 0)

\* Two workers shared the segments, a later call arrived after the flag was
\* set, and all have returned.
C3_Witness ==
  /\ guardKind = "parallel"
  /\ GuardAllIdle
  /\ parLive = ParSlots
  /\ \E g, h \in Segments : segOwner[g] # 0 /\ segOwner[h] # 0 /\ segOwner[g] # segOwner[h]
  /\ \E t \in Workers : parSkips[t] > 0
  /\ \A s \in ParSlots : visits[s] = 1

(* ------------------------- C4: the strong pass ------------------------- *)

\* C4: one ZRootsIterator, its oops_do called by any number of workers,
\* never presents the slot of a global handle more than once and never
\* presents a slot that holds no handle (one that destroy_global released
\* included); and once at least one call was made and every call has
\* returned, the slot of each handle make_global created and nothing has
\* destroyed was presented exactly once.
C4_GlobalSlotPresentedOnce ==
  iter = "strong" =>
    \A g \in StorageSlots :
      LET a == AddrOf(GlobalSlot(g)) IN
      /\ rvisits[a] <= 1
      /\ gmem[g] = Unalloc => rvisits[a] = 0
      /\ (RootsAllIdle /\ rreturned >= 1 /\ gmem[g] # Unalloc) => rvisits[a] = 1

\* A handle of make_global was presented once by a pass two calls took part
\* in, then destroyed, and a second pass of two calls has completed without
\* presenting its slot.
C4_Witness ==
  /\ iter = "strong"
  /\ passes = 2
  /\ RootsAllIdle
  /\ rreturned = 2
  /\ last.op = "destroy_global"
  /\ \E x \in issued :
       /\ x[2] = "global"
       /\ x[1] = last.h
       /\ prevVisits[x[1]] = 1
       /\ rvisits[x[1]] = 0
       /\ \E g \in StorageSlots : x[1] = AddrOf(GlobalSlot(g)) /\ gmem[g] = Unalloc

(* -------------------------- C5: the weak pass -------------------------- *)

\* A pass of ZWeakRootsIterator, made of calls of unlink_or_oops_do with the
\* collector's is_alive, has completed.
UnlinkPassCompleted ==
  /\ iter = "weak"
  /\ ~usedAlways
  /\ RootsAllIdle
  /\ rreturned >= 1

\* The weak handle of weak slot w is cleared and resolves to NULL.
ClearedAndNull(w) ==
  LET h == make_jweak(AddrOf(WeakSlot(w))) IN
  /\ is_global_weak_cleared(chain, gmem, wmem, h)
  /\ resolve(chain, gmem, wmem, h, FALSE) = Outcome(NoViol, NULL)

\* C5 as stated: under every setting of the switches, after a completed
\* unlink_or_oops_do pass each weak handle whose referent is_alive reports
\* dead is cleared and resolves to NULL.
C5_DeadWeakClearedByPass ==
  UnlinkPassCompleted =>
    \A w \in StorageSlots :
      (wmem[w] # Unalloc /\ madeFor[w] \in dead) => ClearedAndNull(w)

\* C5, amended: with ZWeakRoots on and ZConcurrentJNIWeakGlobalHandles off,
\* after a completed unlink_or_oops_do pass each weak handle whose referent
\* is_alive reports dead is cleared and resolves to NULL.
C5_DeadWeakClearedWhenPassScansJNIWeak ==
  (UnlinkPassCompleted /\ zWeakRoots /\ ~zConcJNI) =>
    \A w \in StorageSlots :
      (wmem[w] # Unalloc /\ madeFor[w] \in dead) => ClearedAndNull(w)

\* A weak handle whose referent was found dead after the handle was made has
\* been cleared by a pass two calls took part in, while a weak handle with a
\* live referent keeps it.
C5_Witness ==
  /\ UnlinkPassCompleted
  /\ zWeakRoots
  /\ ~zConcJNI
  /\ rreturned = 2
  /\ "jni_weak_handles" \in ran
  /\ \E w \in StorageSlots :
       /\ madeFor[w] \in dead
       /\ make_jweak(AddrOf(WeakSlot(w))) \in clearedWeak
       /\ ClearedAndNull(w)
  /\ \E w \in StorageSlots :
       /\ wmem[w] \in Refs \ dead
       /\ rvisits[AddrOf(WeakSlot(w))] = 1

(* ------------------------------- C6 ------------------------------------ *)
\* C6: a handle h made by make_local for a non-null oop r resolves to r for
\* as long as h is not destroyed, whatever other handles are made and
\* destroyed meanwhile (chain growth and free-list reuse included). The
\* resolve is one made by a thread that is not in native state, which
\* resolve_impl requires of every caller.
C6_ResolveOfLiveLocal ==
  /\ \A x \in liveLocal :
       resolve(chain, gmem, wmem, x[1], FALSE) = Outcome(NoViol, x[2])
  /\ (last.op = "resolve" /\ ~last.native /\ \E x \in liveLocal : x[1] = last.h)
       => (last.viol = NoViol /\ <<last.h, last.obj>> \in liveLocal)

\* Two live local handles for different oops; resolve was called on one of
\* them after other handles were made, and returned its oop.
C6_Witness ==
  /\ last.op = "resolve"
  /\ ~last.native
  /\ last.viol = NoViol
  /\ <<last.h, last.obj>> \in liveLocal
  /\ \E y \in liveLocal : y[1] # last.h /\ y[2] # last.obj

(* ------------------------------- C7 ------------------------------------ *)
\* C7: resolve_external_guard fails no assertion and returns NULL for the
\* null handle, for a strong handle whose slot holds NULL (a destroyed local
\* handle) and for a weak handle whose referent was cleared. For a non-null
\* handle this is for a caller that is not in native state, which
\* resolve_impl requires of every caller.
C7_ExternalGuardYieldsNull ==
  /\ \A n \in BOOLEAN :
       resolve_external_guard(chain, gmem, wmem, NULL, n) = Outcome(NoViol, NULL)
  /\ \A h \in deadLocal \cup clearedWeak :
       resolve_external_guard(chain, gmem, wmem, h, FALSE) = Outcome(NoViol, NULL)
  /\ \A h \in Resolvable :
       (h # NULL /\ ~is_jweak(h) /\ Load(chain, gmem, wmem, h) = NULL)
         => resolve_external_guard(chain, gmem, wmem, h, FALSE) = Outcome(NoViol, NULL)
  /\ (/\ last.op = "resolve_external_guard"
      /\ \/ last.h = NULL
         \/ (~last.native /\ last.h \in deadLocal \cup clearedWeak))
       => (last.viol = NoViol /\ last.obj = NULL)

\* resolve_external_guard was called on a weak handle after the collector
\* cleared its referent, and returned NULL.
C7_Witness ==
  /\ last.op = "resolve_external_guard"
  /\ ~last.native
  /\ last.h \in clearedWeak
  /\ is_jweak(last.h)
  /\ last.viol = NoViol
  /\ last.obj = NULL

(* ------------------------------- C8 ------------------------------------ *)
\* C8 as stated: a second destroy_local of the same non-null local handle,
\* its slot not handed out again in between, signals a contract violation.
C8_SecondDestroySignals ==
  (last.op = "destroy_local" /\ last.h # NULL /\ last.stale) => last.viol # NoViol

\* C8 as amended: destroy_local of a non-null handle that is not weak-tagged
\* fails no assertion, a second destroy of the same handle included: it
\* stores NULL into the slot again and changes nothing else of the chain.
C8_SecondDestroySilent ==
  /\ (last.op = "destroy_local" /\ last.h # NULL /\ ~is_jweak(last.h))
       => (last.viol = NoViol /\ Load(chain, gmem, wmem, last.h) = NULL)
  /\ \A h \in deadLocal :
       destroy_local(chain, h) = [viol |-> NoViol, chain |-> chain]

\* destroy_local was called on a handle already destroyed and returned
\* without a failed assertion.
C8_Witness ==
  /\ last.op = "destroy_local"
  /\ last.h # NULL
  /\ last.stale
  /\ last.viol = NoViol

(* ------------------------------- C9 ------------------------------------ *)
\* C9: after destroy_local(h) of a non-null strong handle and before its slot
\* is handed out again, resolve(h) and resolve_non_null(h) fail the
\* assertion that the slot is not NULL, and resolve_external_guard(h)
\* returns NULL (each called by a thread that is not in native state).
C9_ResolveAfterDestroy ==
  /\ \A h \in deadLocal :
       /\ resolve(chain, gmem, wmem, h, FALSE) = Outcome("Invalid JNI handle", NULL)
       /\ resolve_non_null(chain, gmem, wmem, h, FALSE) = Outcome("Invalid JNI handle", NULL)
       /\ resolve_external_guard(chain, gmem, wmem, h, FALSE) = Outcome(NoViol, NULL)
  /\ (last.op \in ResolveKinds /\ last.stale /\ ~last.native)
       => /\ last.obj = NULL
          /\ last.viol = (IF last.op = "resolve_external_guard"
                            THEN NoViol ELSE "Invalid JNI handle")

\* resolve_non_null was called on a destroyed local handle and failed the
\* assertion.
C9_Witness ==
  /\ last.op = "resolve_non_null"
  /\ last.stale
  /\ ~last.native
  /\ last.h \in deadLocal
  /\ last.viol = "Invalid JNI handle"

(* ------------------------------- C10 ----------------------------------- *)
\* C10: for every non-null handle the table has handed out, is_jweak holds
\* iff make_weak_global made it (handles of make_local and make_global have
\* the low bit clear and are their slot's address), in every later state
\* (after the referent is cleared too); and a weak handle decodes to the
\* address of the slot the weak storage gave it, the handle minus
\* weak_tag_value.
C10_WeakTagIffWeakGlobal ==
  \A x \in issued :
    /\ x[1] # NULL
    /\ is_jweak(x[1]) <=> (x[2] = "weak")
    /\ x[2] = "weak" =>
         /\ jweak_ref_addr(x[1]) = x[3]
         /\ jweak_ref_addr(x[1]) = x[1] - weak_tag_value
    /\ x[2] # "weak" => (x[1] % 2 = 0 /\ x[1] = x[3])

\* A weak handle whose referent was cleared, beside a strong handle.
C10_Witness ==
  /\ \E x \in issued : x[2] = "weak" /\ x[1] \in clearedWeak /\ is_jweak(x[1])
  /\ \E y \in issued : y[2] \in {"local", "global"} /\ ~is_jweak(y[1])

(* ------------------------------- C11 ----------------------------------- *)

\* The slots of blocks 1..k of a chain, as handles.
SlotsOfBlocks(k) ==
  {AddrOf(LocalSlot(b, i)) : b \in 1..k, i \in 0..(block_size_in_oops - 1)}

\* One allocation on a chain nothing was destroyed in.
C11_AllocStep ==
  LET k == chain.nblocks
      h == last'.h
      obj == last'.obj
  IN
  /\ last'.op = "make_local"
  /\ \A b \in 1..MaxBlocks : chain'.top[b] <= block_size_in_oops
  /\ IF obj = NULL
       THEN h = NULL /\ chain' = chain
       ELSE /\ h # NULL
            /\ h \notin {x[1] : x \in liveLocal}
            /\ resolve(chain', gmem', wmem', h, FALSE) = Outcome(NoViol, obj)
            /\ \A j \in 1..LocalSpan :
                 AddrOf(j) # h => chain'.mem[j] = chain.mem[j]
            /\ IF SumTop(chain, k) < k * block_size_in_oops
                 THEN chain'.nblocks = k /\ h \in SlotsOfBlocks(k)
                 ELSE /\ chain'.nblocks = k + 1
                      /\ h = AddrOf(LocalSlot(k + 1, 0))

\* C11: on a chain of k blocks of block_size_in_oops slots with no handle
\* destroyed, every allocation of a non-null oop while fewer than
\* k * block_size_in_oops handles exist returns a slot of the k blocks that
\* no live handle has, without growing the chain; the allocation made when
\* all k blocks are full grows the chain by exactly one block and returns
\* slot 0 of it; the handle returned resolves to the oop, no other slot is
\* written, and top never exceeds block_size_in_oops.
C11_ChainGrowsByOneBlock == [][C11_AllocStep]_vars

\* Handle number block_size_in_oops + 1 on a chain of one block: a second
\* block was appended, the handle is its slot 0 and resolves to its oop.
C11_Witness ==
  /\ chain.nblocks = 2
  /\ chain.top[1] = block_size_in_oops
  /\ chain.top[2] = 1
  /\ last.op = "make_local"
  /\ last.h = AddrOf(LocalSlot(2, 0))
  /\ last.obj # NULL
  /\ resolve(chain, gmem, wmem, last.h, FALSE) = Outcome(NoViol, last.obj)
  /\ Cardinality({x[1] : x \in liveLocal}) = block_size_in_oops + 1

(* ------------------------------- C12 ----------------------------------- *)

\* The nine strong groups and the four weak categories of ZRootsIterator.
NineStrong ==
  {"universe", "jni_handles", "object_synchronizer", "management", "jvmti_export",
   "system_dictionary", "class_loader_data_graph", "threads", "code_cache"}
FourWeak == {"jni_weak_handles", "jvmti_weak_export", "trace", "string_table"}

\* A pass of ZRootsIterator has completed: a call was made and every call
\* has returned.
StrongPassCompleted ==
  /\ iter = "strong"
  /\ RootsAllIdle
  /\ rreturned >= 1

\* C12 as stated: ZWeakRoots alone selects; with it on the strong pass runs
\* the traversal of none of the four weak categories, with it off a
\* completed pass has run all four and the nine strong groups.
C12_SwitchAloneSelects ==
  iter = "strong" =>
    /\ zWeakRoots => ran \cap FourWeak = {}
    /\ StrongPassCompleted =>
         /\ NineStrong \subseteq ran
         /\ ~zWeakRoots => FourWeak \subseteq ran

\* C12, amended: with ZWeakRoots off a completed strong pass has run the
\* nine strong groups and the four weak categories; with it on the pass
\* never runs weak JNI handles, trace roots or the string table, and it runs
\* weak JVMTI export exactly when a call passed visit_jvmti_weak_export =
\* true.
C12_SwitchAndArgumentSelect ==
  iter = "strong" =>
    /\ ran \subseteq StrongGroups
    /\ zWeakRoots => ran \cap (FourWeak \ {"jvmti_weak_export"}) = {}
    /\ (zWeakRoots /\ ~sawVisitJvmti) => "jvmti_weak_export" \notin ran
    /\ StrongPassCompleted =>
         /\ NineStrong \subseteq ran
         /\ ~zWeakRoots => FourWeak \subseteq ran
         /\ (zWeakRoots /\ sawVisitJvmti) => "jvmti_weak_export" \in ran

\* With ZWeakRoots on, a pass of two calls, one of them with
\* visit_jvmti_weak_export = true, has completed: the nine strong groups and
\* weak JVMTI export were traversed, the other weak categories were not.
C12_Witness ==
  /\ StrongPassCompleted
  /\ zWeakRoots
  /\ sawVisitJvmti
  /\ rreturned = 2
  /\ ran = NineStrong \cup {"jvmti_weak_export"}

(* ------------------------------- C13 ----------------------------------- *)

\* A pass of ZWeakRootsIterator has completed: a call was made and every
\* call has returned.
WeakPassCompleted ==
  /\ iter = "weak"
  /\ RootsAllIdle
  /\ rreturned >= 1

\* C13: a pass of ZWeakRootsIterator runs the traversal of no group but the
\* symbol table, of weak JVMTI export, trace roots and the string table when
\* ZWeakRoots is on, and of weak JNI handles when ZWeakRoots is on and
\* ZConcurrentJNIWeakGlobalHandles is off; a completed pass has run every one
\* of these.
C13_WeakPassGroups ==
  LET enabled ==
        {"symbol_table"}
        \cup (IF zWeakRoots THEN {"jvmti_weak_export", "trace", "string_table"} ELSE {})
        \cup (IF zWeakRoots /\ ~zConcJNI THEN {"jni_weak_handles"} ELSE {})
  IN iter = "weak" =>
       /\ ran \subseteq enabled
       /\ WeakPassCompleted => ran = enabled

\* With both switches on, a pass of two calls has completed: everything but
\* the weak JNI handles was traversed.
C13_Witness ==
  /\ WeakPassCompleted
  /\ zWeakRoots
  /\ zConcJNI
  /\ rreturned = 2
  /\ ran = {"symbol_table", "jvmti_weak_export", "trace", "string_table"}

(* ----------------------------- claim C14 -------------------------------- *)

\* Every call of the concurrent iterator's entry point has returned, and
\* there was one.
ConcPassCompleted == iter = "conc" /\ rcalls >= 1 /\ rreturned = rcalls /\ RootsAllIdle

\* C14: ZConcurrentWeakRootsIterator::oops_do visits the weak JNI handles, and
\* no other group and no slot outside the weak storage, exactly when ZWeakRoots
\* and ZConcurrentJNIWeakGlobalHandles are both set; under every other setting
\* it runs no group and presents no slot.  Constructing the iterator asserts no
\* safepoint and leaves the claim parity and every thread's claim as they were.
C14_ConcStep ==
  /\ (iter = "none" /\ iter' = "conc") =>
       /\ ~NeedsSafepoint("conc")
       /\ parity' = parity
       /\ tclaim' = tclaim
       /\ safepoint' = safepoint
  /\ iter' = "conc" =>
       /\ \A a \in GlobalAddrs : rvisits'[a] = 0
       /\ IF zWeakRoots' /\ zConcJNI'
            THEN /\ ran' \subseteq {"jni_weak_handles"}
                 /\ ConcPassCompleted' => ran' = {"jni_weak_handles"}
            ELSE /\ ran' = {}
                 /\ \A a \in RootAddrs : rvisits'[a] = 0
C14_ConcVisitsWeakJNIOnly == [][C14_ConcStep]_vars

\* A concurrent iterator constructed while the threads run, both switches
\* set, whose calls have returned after presenting a weak slot.
C14_Witness ==
  /\ ConcPassCompleted
  /\ ~safepoint
  /\ zWeakRoots /\ zConcJNI
  /\ ran = {"jni_weak_handles"}
  /\ \E a \in WeakAddrs : rvisits[a] = 1


(* ----------------------------- claim C15 -------------------------------- *)

\* The iterators whose constructor advances the claim parity and whose
\* destructor asserts the threads' claims.
ParityKinds == {"strong", "thread"}

\* C15: the constructor of a ZRootsIterator or ZThreadRootsIterator advances
\* the claim parity; when the iterator is destroyed after at least one call
\* of its oops_do, every call having returned, the assertion of its destructor
\* that every thread was claimed holds; the assertion fails only on an
\* iterator on which no call ran the thread group to its end.
C15_TeardownStep ==
  /\ (iter = "none" /\ iter' \in ParityKinds) =>
       /\ parity' # parity
       /\ parity' \in {1, 2}
  /\ (iter \in ParityKinds /\ iter' = "none") =>
       /\ (rcalls >= 1 /\ rreturned = rcalls) => ~assertFailed'
       /\ assertFailed' => "threads" \notin ran
C15_TeardownAssertionHolds == [][C15_TeardownStep]_vars

\* Two iterators used and destroyed one after the other, the assertion
\* of the second having held with every thread scanned on it.
C15_Witness ==
  /\ iter = "none"
  /\ passes = 2
  /\ ~assertFailed
  /\ \A thr \in JavaThreads : tclaim[thr] = parity /\ tscans[thr] = 1

(* ----------------------------- claim C16 -------------------------------- *)

\* Every call of the entry point of a strong or thread iterator has returned,
\* and there was one.
ThreadPassCompleted ==
  iter \in ParityKinds /\ rcalls >= 1 /\ rreturned = rcalls /\ RootsAllIdle

\* C16: on a ZRootsIterator or ZThreadRootsIterator, whatever the number of
\* workers calling oops_do and however their steps interleave, no thread's
\* stack is scanned twice, and once the calls have returned every thread's
\* stack was scanned exactly once.  This holds on each iterator of a sequence
\* of iterators that were all used: the teardown assertion of the one before
\* held, and the construction advanced the parity past the parity the threads
\* were claimed with.
C16_EachStackScannedOnce ==
  (iter \in ParityKinds /\ ~assertFailed) =>
    /\ \A thr \in JavaThreads : tscans[thr] <= 1
    /\ \A thr \in JavaThreads : tscans[thr] = 1 => tclaim[thr] = parity
    /\ ThreadPassCompleted => \A thr \in JavaThreads : tscans[thr] = 1

\* The second iterator of a sequence, two calls returned, every stack
\* scanned once.
C16_Witness ==
  /\ ThreadPassCompleted
  /\ passes = 2
  /\ rcalls = 2
  /\ ~assertFailed
  /\ \A thr \in JavaThreads : tscans[thr] = 1

(* ----------------------------- claim C17 -------------------------------- *)

\* C17: while the concurrent weak iterator scans the weak storage (both
\* switches set) and threads make and destroy weak handles beside it, no slot
\* is presented twice, and once the calls have returned every slot that was
\* allocated when the partition state was made and was not destroyed since
\* has been presented exactly once.  Nothing is required of a slot allocated
\* after the partition state was made.
C17_ConcurrentScanSnapshot ==
  (iter = "conc" /\ zWeakRoots /\ zConcJNI) =>
    /\ \A k \in StorageSlots : rvisits[AddrOf(WeakSlot(k))] <= 1
    /\ ConcPassCompleted =>
         \A k \in scanStart \ destroyedIn : rvisits[AddrOf(WeakSlot(k))] = 1

\* A completed scan beside which a slot was destroyed and a slot was added:
\* the slot that stayed was presented once, the slot added during the scan
\* was presented too.
C17_Witness ==
  /\ ConcPassCompleted
  /\ zWeakRoots /\ zConcJNI
  /\ ~safepoint
  /\ destroyedIn # {}
  /\ \E k \in scanStart \ destroyedIn : rvisits[AddrOf(WeakSlot(k))] = 1
  /\ \E k \in StorageSlots :
       /\ k \in destroyedIn \/ k \notin scanStart
       /\ wmem[k] # Unalloc
       /\ rvisits[AddrOf(WeakSlot(k))] = 1

(* ----------------------------- claim C18 -------------------------------- *)

\* C18: on a weak iterator used through ZWeakRootsIterator::oops_do only,
\* every entry of every group counts as live: no step of the pass clears a
\* weak handle's slot or unlinks an entry of the symbol table.
C18_VisitOnlyStep ==
  (iter = "weak" /\ iter' = "weak") =>
    /\ wmem' = wmem
    /\ clearedWeak' = clearedWeak
    /\ symtab' = symtab
C18_VisitOnlyUnlinksNothing == [][C18_VisitOnlyStep]_vars

(* ----------------------------- claim C19 -------------------------------- *)

\* C19: in every state of a parallel guard (ZParallelOopsDo,
\* ZParallelUnlinkOrOopsDo) _completed is true only if some invocation of the
\* traversal function has returned, and no step of any worker takes
\* _completed from true back to false.
C19_ParStep ==
  guardKind = "parallel" =>
    /\ completed' => parDone' >= 1
    /\ completed => completed'
C19_CompletedOnlyAfterRunAndStays == [][C19_ParStep]_vars

\* Two invocations of the traversal function ran to their end, both workers
\* are out of the guard, and _completed is true.
C19_Witness ==
  /\ guardKind = "parallel"
  /\ completed
  /\ parDone >= 2
  /\ GuardAllIdle

(* ----------------------------- claim C20 -------------------------------- *)

\* The content of the slot a non-null handle designates.
SlotOf(h) == Load(chain, gmem, wmem, IF is_jweak(h) THEN jweak_ref_addr(h) ELSE h)

\* C20: resolve_non_null never returns NULL: a call either fails an assertion
\* and returns nothing, or returns a non-null oop.  It fails an assertion for
\* the null handle, for a strong handle whose slot holds NULL and for a weak
\* handle whose referent was cleared; for every other handle, called by a
\* thread that is not in native state (which resolve_impl asserts of every
\* caller), it returns the oop in the handle's slot.
C20_ResolveNonNullNeverNull ==
  /\ \A n \in BOOLEAN :
       resolve_non_null(chain, gmem, wmem, NULL, n) =
         Outcome("JNI handle should not be null", NULL)
  /\ \A h \in Resolvable, n \in BOOLEAN :
       LET r == resolve_non_null(chain, gmem, wmem, h, n) IN
       IF r.viol = NoViol THEN r.val # NULL ELSE r.val = NULL
  /\ \A h \in Resolvable \ {NULL} :
       LET r == resolve_non_null(chain, gmem, wmem, h, FALSE) IN
       IF SlotOf(h) # NULL
         THEN r = Outcome(NoViol, SlotOf(h))
         ELSE r = Outcome(IF is_jweak(h) THEN "NULL read from jni handle"
                                         ELSE "Invalid JNI handle", NULL)
  /\ \A h \in clearedWeak : is_jweak(h) /\ SlotOf(h) = NULL
  /\ last.op = "resolve_non_null" =>
       IF last.viol = NoViol THEN last.obj # NULL ELSE last.obj = NULL

\* resolve_non_null was called on a weak handle after the collector cleared
\* its referent, and failed its last assertion.
C20_Witness ==
  /\ last.op = "resolve_non_null"
  /\ ~last.native
  /\ last.h \in clearedWeak
  /\ last.viol = "NULL read from jni handle"
  /\ last.obj = NULL

(* ----------------------------- claim C21 -------------------------------- *)

\* The weak categories, and the iterators of the finished cycle whose pass ran
\* a category.
WeakCategories == {"jni_weak_handles", "jvmti_weak_export", "trace", "string_table"}
CycleComplete == iter = "none" /\ \A kind \in CycleKinds : cycle[kind].done
ProcessedBy(cat) == {kind \in CycleKinds : cat \in cycle[kind].ran}

\* C21 as stated: in a cycle that ran the strong, the weak and the concurrent
\* weak iterator, under every setting of the two switches and of the
\* visit_jvmti_weak_export argument, each weak category was run by exactly one
\* of the three.
C21_EachWeakCategoryOnce ==
  CycleComplete => \A cat \in WeakCategories : Cardinality(ProcessedBy(cat)) = 1

\* C21 as amended: each weak category was run by at least one of the three
\* iterators, and by exactly one except weak JVMTI export in a cycle with
\* ZWeakRoots set whose strong pass had a call with visit_jvmti_weak_export =
\* true: that category was run by the strong and by the weak iterator.
C21_EachWeakCategoryOnceUnlessArgument ==
  CycleComplete =>
    \A cat \in WeakCategories :
      IF cat = "jvmti_weak_export" /\ zWeakRoots /\ cycle["strong"].visitJvmti
        THEN ProcessedBy(cat) = {"strong", "weak"}
        ELSE Cardinality(ProcessedBy(cat)) = 1

\* A finished cycle with both switches set and the argument true in the strong
\* pass: weak JNI handles went to the concurrent iterator, trace roots and the
\* string table to the weak one, weak JVMTI export to two iterators.
C21_Witness ==
  /\ CycleComplete
  /\ zWeakRoots /\ zConcJNI
  /\ cycle["strong"].visitJvmti
  /\ ProcessedBy("jni_weak_handles") = {"conc"}
  /\ ProcessedBy("trace") = {"weak"}
  /\ ProcessedBy("string_table") = {"weak"}
  /\ ProcessedBy("jvmti_weak_export") = {"strong", "weak"}

(* ----------------------------- claim C22 -------------------------------- *)

RECURSIVE GroupsOf(_)
GroupsOf(seq) == IF seq = <<>> THEN {} ELSE {Head(seq)} \cup GroupsOf(Tail(seq))

\* The groups the calls made on the iterator go through: those of the entry
\* point under the switches, with weak JVMTI export for a strong iterator
\* under ZWeakRoots if a call passed visit_jvmti_weak_export = true.
EnabledGroups ==
  CASE iter = "strong" -> GroupsOf(StrongSeq(zWeakRoots, sawVisitJvmti))
    [] iter = "weak" -> GroupsOf(WeakSeq(zWeakRoots, zConcJNI))
    [] iter = "conc" -> GroupsOf(ConcSeq(zWeakRoots, zConcJNI))
    [] iter = "thread" -> GroupsOf(ThreadSeq)
    [] OTHER -> {}

\* Every call made on the iterator has returned, and there was one.
PassCompleted == iter # "none" /\ rcalls >= 1 /\ rreturned = rcalls /\ RootsAllIdle

\* A worker inside a call can take its next step whatever the other workers
\* are doing.
NeverWaits == \A t \in Workers : rpc[t] # RootsIdle => ENABLED WorkerStep(t)

\* Once every call has returned, the traversal function of every group the
\* calls go through has run to its end, and no other.
CompletedPassRanAll == PassCompleted => ran = EnabledGroups

\* C22: with traversal functions that return, a worker inside a call of an
\* aggregate entry point is never blocked by another worker (the loser of a
\* serial claim goes on while the winner is inside the traversal function),
\* every call returns, and once the calls (at least one) have all returned
\* every group the configuration enables has had its traversal function run to
\* its end.
C22_CallsReturnAndPassCompletes ==
  /\ []NeverWaits
  /\ []CompletedPassRanAll
  /\ \A t \in Workers : (rpc[t] # RootsIdle) ~> (rpc[t] = RootsIdle)

\* Two calls on a strong iterator: the one has gone through every guard and
\* returned while the other, winner of the first serial claim, is still
\* inside that group's traversal function.
C22_Witness ==
  /\ iter = "strong"
  /\ rcalls = 2
  /\ rreturned = 1
  /\ \E t \in Workers :
       /\ rpc[t].st = "run"
       /\ GroupAt(t) = "universe"
       /\ IsSerial(GroupAt(t))
  /\ ran = EnabledGroups \ {"universe"}


(* ------------------------------- C23 ----------------------------------- *)
\* The local handles that are live: returned by make_local and not passed to
\* destroy_local since.
LiveHandles == {x[1] : x \in liveLocal}

\* The slots of the chain hold exactly the live handles' oops, one handle to
\* a slot, and the free list names each slot once, every one of them empty
\* and below top.
SlotsAgreeWithLive ==
  /\ \A x, y \in liveLocal : x[1] = y[1] => x = y
  /\ \A k \in 1..LocalSpan :
       IF AddrOf(k) \in LiveHandles THEN <<AddrOf(k), chain.mem[k]>> \in liveLocal
       ELSE chain.mem[k] = NULL
  /\ \A i, j \in 1..Len(chain.free_list) :
       chain.free_list[i] = chain.free_list[j] => i = j
  /\ \A i \in 1..Len(chain.free_list) :
       LET k == chain.free_list[i] \div weak_tag_alignment IN
       /\ k \in 1..LocalSpan
       /\ chain.mem[k] = NULL
       /\ \E b \in 1..chain.nblocks :
            \E o \in 0..(chain.top[b] - 1) : k = LocalSlot(b, o)

\* What one call of make_local or destroy_local does to the slots.
C23_LocalStep ==
  /\ (ops' = ops + 1 /\ last'.op = "destroy_local" /\ last'.h # NULL)
       => /\ chain' = [chain EXCEPT !.mem[last'.h \div weak_tag_alignment] = NULL]
          /\ chain'.top = chain.top
          /\ chain'.free_list = chain.free_list
          /\ LiveHandles' = LiveHandles \ {last'.h}
  /\ (ops' = ops + 1 /\ last'.op = "make_local" /\ last'.h # NULL)
       => LET k == last'.h \div weak_tag_alignment IN
          /\ last'.h \notin LiveHandles
          /\ chain.mem[k] = NULL
          /\ chain'.mem = [chain.mem EXCEPT ![k] = last'.obj]
          /\ liveLocal' = liveLocal \cup {<<last'.h, last'.obj>>}

\* C23: over any sequence of make_local and destroy_local calls on one chain
\* no slot holds two live handles: destroy_local stores NULL into the slot of
\* its handle and changes neither top, nor the free list, nor another slot,
\* and make_local, by bumping top or by popping a free list that a rebuild
\* filled, returns a slot that is empty and belongs to no live handle.
C23_LiveHandlesNeverShareSlot ==
  /\ []SlotsAgreeWithLive
  /\ [][C23_LocalStep]_vars

\* make_local has just handed out again, off the rebuilt free list, a slot
\* below top whose handle had been destroyed, while the handles of the other
\* slots of the full block are still live.
C23_Witness ==
  /\ last.op = "make_local"
  /\ last.h # NULL
  /\ chain.nblocks = 1
  /\ chain.top[1] = block_size_in_oops
  /\ last.h \div weak_tag_alignment < block_size_in_oops
  /\ chain.free_list = <<>>
  /\ Cardinality(LiveHandles) = block_size_in_oops

====
